---- MODULE Spec2Model ----
(***************************************************************************)
(* A model of ssh-agent-mux: the multiplexing agent (muxagent.MuxAgent),   *)
(* its local key store and its sequential traversal of the backend chain.  *)
(*                                                                         *)
(* One forwarding request (List, Signers, Sign/SignWithFlags, Extension)   *)
(* is followed step by step through runAgainstBackends: one step per dial  *)
(* and one per backend call.  Add, Remove and RemoveAll, which take the    *)
(* exclusive side of keysMutex, run to completion in one step; they arrive *)
(* on the observed connection between its requests and on other            *)
(* connections while the observed request is in flight.                    *)
(*                                                                         *)
(* The connection server (runEventLoop, handleConnection) is a second      *)
(* state machine over its own variables, SpecServer: the main loop, the    *)
(* accept goroutine and one handler per connection each move one step at   *)
(* a time, and the clients and the operating system are the environment.   *)
(*                                                                         *)
(* The ping exchange (MuxClient.Ping, handlePing) is followed against a    *)
(* clock in SpecPing, and the start of an instance on a socket path that   *)
(* another instance may hold (mainCommand, removeSocketIfExists) in        *)
(* SpecStartup.  The daemon supervisor (daemon.Ize) is followed in         *)
(* SpecDaemon: one process through Ize, in the initial, the child or the   *)
(* watcher mode, with the children it starts and the signals it receives.  *)
(* SpecServerMain follows the server up to the return of mainCommand,      *)
(* SpecClient one muxclient.MuxClient and SpecCommand the command mode     *)
(* (handleCommand).                                                        *)
(***************************************************************************)
EXTENDS Integers, Sequences, FiniteSets, TLC

(***************************************************************************)
(* Bounds of the model.                                                    *)
(***************************************************************************)
\* longest backend chain (config.GetBackendSocketPath()) that is explored
MaxChain == 3
\* number of client connections the server run is followed with
MaxConns == 2
\* last reading of the clock that is explored
MaxClock == 3
\* number of children a watcher is followed through
MaxChildren == 2
\* rounds of waitForSocketToExist that fit into timeoutForSocketCreation
MaxRetries == 3
\* connections one control client is followed through, and calls of one
\* CloseFunc
MaxDials == 3
MaxCalls == 2
\* most --backend-agent paths given to command mode
MaxPaths == 2

(***************************************************************************)
(* Values.                                                                 *)
(***************************************************************************)
\* the nil error, and the nil value of a pointer or slice result
Nil == "nil"
NilVal == [nil |-> TRUE]

\* socket paths a chain entry can hold; "" is the empty path
BackendPaths == {"/a", "/b"}
Paths == {""} \cup BackendPaths

\* private-key material offered to Add: two usable keys, one value that is
\* not a crypto.Signer, one crypto.Signer whose public key ssh cannot convert
M1 == [id |-> 1, kind |-> "ed25519"]
M2 == [id |-> 2, kind |-> "rsa"]
MOpaque == [id |-> 3, kind |-> "opaque"]
MUnsupported == [id |-> 4, kind |-> "ed448"]
Materials == {M1, M2, MOpaque, MUnsupported}
Comments == {"", "t"}

\* agent.SignatureFlags values
SignatureFlagReserved == 1
SignatureFlagRsaSha256 == 2
SignatureFlagRsaSha512 == 4
Flags == {0, SignatureFlagReserved, SignatureFlagRsaSha256, SignatureFlagRsaSha512}

\* key.(crypto.Signer)
IsCryptoSigner(m) == m.kind # "opaque"

\* ssh.NewPublicKey(signer.Public()): the ssh public key, or Nil when the
\* key type is not one ssh knows (NilVal)
NewPublicKey(m) ==
    CASE m.kind = "ed25519" -> [Type |-> "ssh-ed25519", n |-> m.id]
      [] m.kind = "rsa" -> [Type |-> "ssh-rsa", n |-> m.id]
      [] OTHER -> NilVal

\* ssh.PublicKey.Marshal(): the wire blob, the type name followed by the key
Marshal(pub) == <<pub.Type, pub.n>>

\* public keys a client can name in Sign and Remove: those of M1 and M2 and
\* one that only a backend can hold
PubBackendOnly == [Type |-> "ssh-ed25519", n |-> 5]
PublicKeys == {NewPublicKey(M1), NewPublicKey(M2), PubBackendOnly}
Blobs == {Marshal(p) : p \in PublicKeys}

\* agent.Key as a backend lists it
BackendKey(pub, c) == [Format |-> pub.Type, Blob |-> Marshal(pub), Comment |-> c]

\* the key lists a backend agent can hold
BackendKeyLists ==
    { <<>>,
      <<BackendKey(NewPublicKey(M1), "dup"), BackendKey(PubBackendOnly, "b")>> }

\* what a connected backend does with one call: it answers, it fails the
\* call, or it returns neither a value nor an error
Outcomes == {"ok", "err", "nil"}

ExtensionTypes == {"ping", "config", "shutdown", "other"}
Payloads == {"valid", "garbage"}

\* errors
ErrUnimplemented == "not implemented"
errExitBackendLoop == "exit backend loop"
ErrExtensionUnsupported == "agent: extension unsupported"
ErrKeyNotFound == "key not found"
ErrKeyNotFoundInBackend == "key not found in backend agent"
ErrBackendFailure == "agent: failure"
ErrUnmarshal == "failed to unmarshal message"
ErrNotSigner == "private key does not implement crypto.Signer"
ErrConvertPublicKey == "failed to convert public key"
ErrDial == "failed to connect to backend agent"
ErrLocalSign == "local signing failed"

VARIABLES
    config,        \* m.config.GetBackendSocketPath(): the backend chain
    ctxCancelled,  \* m.ctx has been cancelled
    localKeys,     \* m.localKeys: blob -> agent.AddedKey
    rlock,         \* the in-flight request holds keysMutex.RLock
    backends,      \* the key list each backend agent holds
    req,           \* the request in flight on the observed connection, with its
                   \* history: log, the backend contacts made for it, and prev,
                   \* what the key store held for it on entry
    added          \* history: the (blob, comment) pairs added and not removed since

\* the connection server: runEventLoop and what it starts
VARIABLES
    listener,      \* the net.Listener handed to runEventLoop: "open" or "closed"
    acceptor,      \* the accept goroutine: where it is and the conn it holds
    errChan,       \* errChan, buffered
    sigChan,       \* sigChan, buffered, fed by signal.Notify
    wg,            \* the counter of the sync.WaitGroup
    loop,          \* the main loop: where it is, what stopped it, what it returned
                   \* (err) and what wrapEventLoop made of that (exit)
    conns          \* connection -> its state on the server and on the peer

\* the ping exchange
VARIABLES
    clock,         \* time.Now() on the host
    proc,          \* the serving process: its pid and m.config.GetStartTime()
    ping,          \* the ping request on the wire, with the time it was sent at
    pong,          \* the Pong built for it
    mconfig,       \* m.config, the api.Config the engine was constructed with
    cfgReplies     \* what the last two config queries returned, oldest first

\* the start of an instance
VARIABLES
    sock,          \* what the socket path holds: "absent", "file" (no socket),
                   \* "other" (a socket another instance bound), "self" (ours)
    peerAlive,     \* the instance that bound the socket runs and answers
    boot           \* mainCommand of the starting instance: where it is, what it
                   \* has done so far and what it returned; marker is
                   \* os.Getenv(ENVVAR) in the process (launch: as it was when the
                   \* process was executed) and ize is where the goroutine of
                   \* `go daemon.Ize(...)` is

\* the daemon supervisor
VARIABLES
    env,           \* os.Getenv(ENVVAR) in the process that calls Ize
    ize,           \* that process: where it is in Ize, its options, its exit status
    spawned,       \* the os.StartProcess calls it made: marker passed, outcome
    child,         \* the child the watcher started last
    sigchan,       \* the watcher's sigchan, buffered
    forwarders,    \* the children whose signal goroutine has not ended
    pidFile        \* opt.pidFile is on disk

\* command mode
VARIABLES
    cmd            \* handleCommand: where it is, its inputs (the backend-agent
                   \* paths, the --socket path, the command), the path of the
                   \* MuxClient it talks to, and how it ended

\* a control client: one muxclient.MuxClient
VARIABLES
    closeFuncOnce, \* c.closeFuncOnce has run its function
    dials          \* the connections c.connect opened, in order: the state of
                   \* the net.Conn and, as history, how often its CloseFunc was
                   \* called and how often conn.Close() ran

engineVars == <<config, localKeys, rlock, backends, req, added>>
serverVars == <<listener, acceptor, errChan, sigChan, wg, loop, conns>>
pingVars == <<clock, proc, ping, pong, mconfig, cfgReplies>>
startupVars == <<sock, peerAlive, boot>>
daemonVars == <<env, ize, spawned, child, sigchan, forwarders, pidFile>>
clientVars == <<closeFuncOnce, dials>>
commandVars == <<cmd>>

vars == <<engineVars, ctxCancelled, serverVars, pingVars, startupVars, daemonVars,
          clientVars, commandVars>>

\* what the engine's steps leave alone
outsideEngine ==
    <<serverVars, pingVars, startupVars, daemonVars,
      clientVars, commandVars>>

\* what the server's steps leave alone
outsideServer ==
    <<engineVars, pingVars, startupVars, daemonVars,
      clientVars, commandVars>>

\* what the steps of the ping exchange leave alone
outsidePing ==
    <<engineVars, ctxCancelled, serverVars, startupVars, daemonVars,
      clientVars, commandVars>>

\* what the steps of a start leave alone
outsideStartup ==
    <<engineVars, ctxCancelled, serverVars, pingVars, daemonVars,
      clientVars, commandVars>>

\* what the steps of a control client leave alone
outsideClient ==
    <<engineVars, ctxCancelled, serverVars, pingVars, startupVars, daemonVars,
      commandVars>>

\* what the steps of the daemon supervisor leave alone
outsideDaemon ==
    <<engineVars, ctxCancelled, serverVars, pingVars, startupVars,
      clientVars, commandVars>>

\* what the steps of command mode leave alone
outsideCommand ==
    <<engineVars, ctxCancelled, serverVars, pingVars, startupVars, daemonVars,
      clientVars>>

\* sequences over S of length 0..n
RECURSIVE SeqsUpTo(_, _)
SeqsUpTo(S, n) ==
    IF n = 0 THEN {<<>>}
    ELSE LET shorter == SeqsUpTo(S, n - 1)
         IN shorter \cup {Append(s, x) : s \in {q \in shorter : Len(q) = n - 1}, x \in S}

\* the orders in which a Go map with key set S can be ranged over
Orders(S) == {s \in [1..Cardinality(S) -> S] : \A i, j \in 1..Cardinality(S) : i # j => s[i] # s[j]}

Range(s) == {s[i] : i \in 1..Len(s)}

IdleReq ==
    [op |-> "none", pc |-> "idle", key |-> NilVal, flags |-> 0, ext |-> Nil,
     idx |-> 0, conn |-> 0, acc |-> <<>>, out |-> NilVal,
     err |-> Nil, log |-> <<>>, prev |-> NilVal]

\* the connections the server run is followed with
ConnIds == 1..MaxConns

\* a connection no client has opened yet
NoConn == [st |-> "free", pc |-> "read", rq |-> "none", peer |-> "open"]

\* runEventLoop on entry: the listener bound, the channels made and empty,
\* the WaitGroup at zero, the accept goroutine started
ServerInit ==
    /\ listener = "open"
    /\ acceptor = [pc |-> "Accept", conn |-> 0]
    /\ errChan = <<>>
    /\ sigChan = <<>>
    /\ wg = 0
    /\ loop = [pc |-> "select", why |-> "none", err |-> Nil, exit |-> Nil]
    /\ conns = [c \in ConnIds |-> NoConn]

\* the api.Config mainCommand builds: Id and Ts are left unset
RunningConfig ==
    [SocketPath |-> "/s", BackendSocketPath |-> <<"/a", "/b">>, StartTime |-> 0,
     Version |-> "v", Pid |-> "pid", Id |-> "", Ts |-> -1]

\* mainCommand builds the config with StartTime: timestamppb.Now() and
\* Pid: os.Getpid(); no ping is under way and no config query was made
PingInit ==
    /\ clock = 0
    /\ proc = [Pid |-> "pid", StartTime |-> 0]
    /\ ping = NilVal
    /\ pong = NilVal
    /\ mconfig = RunningConfig
    /\ cfgReplies = <<>>

\* the engine between requests and with no backend
EngineIdle ==
    /\ config = <<>>
    /\ localKeys = <<>>
    /\ rlock = FALSE
    /\ backends = [p \in BackendPaths |-> <<>>]
    /\ req = IdleReq
    /\ added = {}

\* mainCommand entered; nothing at the socket path
StartupInit ==
    /\ sock = "absent"
    /\ peerAlive = FALSE
    /\ boot = [pc |-> "start", role |-> "none", pinged |-> "no", removed |-> FALSE,
               bound |-> FALSE, printed |-> "nothing", err |-> Nil, rounds |-> 0,
               foreground |-> FALSE, launch |-> "", marker |-> "", ize |-> "none"]

\* a process about to be executed: Ize not yet called, default options
DaemonInit ==
    /\ env = ""
    /\ ize = [pc |-> "exec", opt |-> [justOne |-> FALSE, exitMain |-> TRUE, pidFile |-> FALSE],
              code |-> 0]
    /\ spawned = <<>>
    /\ child = [id |-> 0, st |-> "none"]
    /\ sigchan = <<>>
    /\ forwarders = {}
    /\ pidFile = FALSE

\* mainCommand about to call handleCommand
CommandInit ==
    cmd = [pc |-> "start", paths |-> <<>>, socket |-> "", command |-> "",
           target |-> "", fellBack |-> FALSE, end |-> "none", err |-> Nil]

\* NewMuxClient: a fresh sync.Once, nothing dialled
ClientInit ==
    /\ closeFuncOnce = FALSE
    /\ dials = <<>>

\* NewMuxAgent: an empty key map and the configured chain
Init ==
    /\ config \in SeqsUpTo(Paths, MaxChain)
    /\ ctxCancelled = FALSE
    /\ localKeys = <<>>
    /\ rlock = FALSE
    /\ backends \in [BackendPaths -> BackendKeyLists]
    /\ req = IdleReq
    /\ added = {}
    /\ ServerInit
    /\ PingInit
    /\ StartupInit
    /\ DaemonInit
    /\ ClientInit
    /\ CommandInit

(***************************************************************************)
(* The local key store.                                                    *)
(***************************************************************************)

\* (a variant: an entry that exists is kept)
MapSetKeepsFirst(keys, blob, key) ==
    [b \in DOMAIN keys \cup {blob} |-> IF b \in DOMAIN keys THEN keys[b] ELSE key]

\* m.localKeys[keyString] = &key
MapSet(keys, blob, key) ==
    [b \in DOMAIN keys \cup {blob} |-> IF b = blob THEN key ELSE keys[b]]

\* delete(m.localKeys, keyString)
MapDelete(keys, blob) ==
    [b \in DOMAIN keys \ {blob} |-> keys[b]]

\* the body of List's loop over m.localKeys: a key is listed when its
\* material is a crypto.Signer whose public key converts
Listable(addedKey) ==
    /\ IsCryptoSigner(addedKey.PrivateKey)
    /\ NewPublicKey(addedKey.PrivateKey) # NilVal

\* (a variant: the comment of the stored key is not copied)
LocalKeyNoComment(addedKey) ==
    LET sshPubKey == NewPublicKey(addedKey.PrivateKey)
    IN [src |-> 0, Format |-> sshPubKey.Type, Blob |-> Marshal(sshPubKey),
        Comment |-> ""]

\* the agent.Key List builds for a stored key (src 0 marks a local entry)
LocalKey(addedKey) ==
    LET sshPubKey == NewPublicKey(addedKey.PrivateKey)
    IN [src |-> 0, Format |-> sshPubKey.Type, Blob |-> Marshal(sshPubKey),
        Comment |-> addedKey.Comment]

\* List's local part, the map ranged over in the given order
LocalList(order) ==
    LET kept == SelectSeq(order, LAMBDA b : Listable(localKeys[b]))
    IN [i \in 1..Len(kept) |-> LocalKey(localKeys[kept[i]])]

\* ssh.NewSignerFromKey(addedKey.PrivateKey) succeeds
HasSigner(addedKey) ==
    /\ IsCryptoSigner(addedKey.PrivateKey)
    /\ NewPublicKey(addedKey.PrivateKey) # NilVal

\* Signers' local part
LocalSigners(order) ==
    LET kept == SelectSeq(order, LAMBDA b : HasSigner(localKeys[b]))
    IN [i \in 1..Len(kept) |->
            [src |-> 0, Blob |-> Marshal(NewPublicKey(localKeys[kept[i]].PrivateKey))]]

(***************************************************************************)
(* Local signing.                                                          *)
(***************************************************************************)
KeyAlgoRSASHA256 == "rsa-sha2-256"
KeyAlgoRSASHA512 == "rsa-sha2-512"

\* the switch on flags in SignWithFlags
AlgorithmFor(key, flags) ==
    CASE flags = SignatureFlagRsaSha256 -> KeyAlgoRSASHA256
      [] flags = SignatureFlagRsaSha512 -> KeyAlgoRSASHA512
      [] OTHER -> key.Type

\* the signature algorithms a key of the given type can produce
AlgorithmsOf(type) ==
    IF type = "ssh-rsa" THEN {"ssh-rsa", KeyAlgoRSASHA256, KeyAlgoRSASHA512} ELSE {type}

\* algoSigner.SignWithAlgorithm / signer.Sign on the stored key: a signature,
\* or NilVal when the algorithm does not fit the key or the signer fails
SignWithAlgorithm(addedKey, algorithm, signerWorks) ==
    LET pub == NewPublicKey(addedKey.PrivateKey)
    IN IF signerWorks /\ algorithm \in AlgorithmsOf(pub.Type)
       THEN [by |-> 0, Format |-> algorithm, Blob |-> Marshal(pub)]
       ELSE NilVal

(***************************************************************************)
(* Backend agents, as seen through one connection.                         *)
(***************************************************************************)
HoldsKey(path, key) ==
    \E i \in 1..Len(backends[path]) : backends[path][i].Blob = Marshal(key)

\* fb.List()
BackendList(i, outcome) ==
    IF outcome = "ok"
    THEN [val |-> [k \in 1..Len(backends[config[i]]) |->
                      [src |-> i, Format |-> backends[config[i]][k].Format,
                       Blob |-> backends[config[i]][k].Blob,
                       Comment |-> backends[config[i]][k].Comment]],
          err |-> Nil]
    ELSE IF outcome = "nil" THEN [val |-> <<>>, err |-> Nil]
    ELSE [val |-> <<>>, err |-> ErrBackendFailure]

\* fb.Signers()
BackendSigners(i, outcome) ==
    IF outcome = "ok"
    THEN [val |-> [k \in 1..Len(backends[config[i]]) |->
                      [src |-> i, Blob |-> backends[config[i]][k].Blob]],
          err |-> Nil]
    ELSE IF outcome = "nil" THEN [val |-> <<>>, err |-> Nil]
    ELSE [val |-> <<>>, err |-> ErrBackendFailure]

\* fb.SignWithFlags(key, data, flags): a backend that answers signs when it
\* holds the key and fails the call when it does not
BackendSign(i, key, flags, outcome) ==
    IF outcome = "ok" /\ HoldsKey(config[i], key)
    THEN [val |-> [by |-> i, Format |-> AlgorithmFor(key, flags), Blob |-> Marshal(key)],
          err |-> Nil]
    ELSE IF outcome = "nil" THEN [val |-> NilVal, err |-> Nil]
    ELSE [val |-> NilVal, err |-> ErrBackendFailure]

\* fb.Extension(extensionType, contents)
BackendExtension(i, ext, outcome) ==
    IF outcome = "ok" THEN [val |-> [by |-> i, ext |-> ext], err |-> Nil]
    ELSE IF outcome = "nil" THEN [val |-> NilVal, err |-> Nil]
    ELSE [val |-> NilVal, err |-> ErrBackendFailure]

(***************************************************************************)
(* The per-backend functions handed to runAgainstBackends: the request     *)
(* after f(fb), what the backend returned and the error f returned.        *)
(***************************************************************************)

\* (a variant: a failed backend List is skipped inside f)
ListFSwallows(r, outcome) ==
    LET b == BackendList(r.idx, outcome)
    IN IF b.err # Nil THEN [r |-> r, back |-> b, ferr |-> Nil]
       ELSE [r |-> [r EXCEPT !.acc = @ \o b.val], back |-> b, ferr |-> Nil]

ListF(r, outcome) ==
    LET b == BackendList(r.idx, outcome)
    IN IF b.err # Nil THEN [r |-> r, back |-> b, ferr |-> "failed to list keys from backend agent"]
       ELSE [r |-> [r EXCEPT !.acc = @ \o b.val], back |-> b, ferr |-> Nil]

SignersF(r, outcome) ==
    LET b == BackendSigners(r.idx, outcome)
    IN IF b.err # Nil THEN [r |-> r, back |-> b, ferr |-> "failed to get signers from backend agent"]
       ELSE [r |-> [r EXCEPT !.acc = @ \o b.val], back |-> b, ferr |-> Nil]

SignF(r, outcome) ==
    LET b == BackendSign(r.idx, r.key, r.flags, outcome)
    IN IF b.err # Nil THEN [r |-> r, back |-> b, ferr |-> b.err]
       ELSE IF b.val # NilVal THEN [r |-> [r EXCEPT !.out = b.val], back |-> b, ferr |-> errExitBackendLoop]
       ELSE [r |-> r, back |-> b, ferr |-> ErrKeyNotFoundInBackend]

ExtensionF(r, outcome) ==
    LET b == BackendExtension(r.idx, r.ext, outcome)
    IN IF b.err # Nil THEN [r |-> r, back |-> b, ferr |-> b.err]
       ELSE IF b.val # NilVal THEN [r |-> [r EXCEPT !.out = b.val], back |-> b, ferr |-> errExitBackendLoop]
       ELSE [r |-> r, back |-> b, ferr |-> ErrExtensionUnsupported]

F(r, outcome) ==
    CASE r.op = "List" -> ListF(r, outcome)
      [] r.op = "Signers" -> SignersF(r, outcome)
      [] r.op = "Sign" -> SignF(r, outcome)
      [] r.op = "Extension" -> ExtensionF(r, outcome)

(***************************************************************************)
(* What each operation returns once runAgainstBackends has returned rerr.  *)
(***************************************************************************)

\* (a variant: List hands the traversal's error to its caller)
ListReturnSurfaces(r, rerr) == [r EXCEPT !.pc = "done", !.err = rerr]

\* List: the error is logged, the keys are returned
ListReturn(r, rerr) == [r EXCEPT !.pc = "done", !.err = Nil]

\* Signers: the error is logged, the signers are returned
SignersReturn(r, rerr) == [r EXCEPT !.pc = "done", !.err = Nil]


\* (a variant: a traversal that returns nil counts as an answer)
SignReturnNilIsAnswer(r, rerr) ==
    IF rerr = errExitBackendLoop \/ rerr = Nil
    THEN [r EXCEPT !.pc = "done", !.err = Nil]
    ELSE [r EXCEPT !.pc = "done", !.out = NilVal, !.err = ErrKeyNotFound]

\* SignWithFlags: returnedSig on errExitBackendLoop, "key not found" otherwise
SignReturn(r, rerr) ==
    IF rerr = errExitBackendLoop
    THEN [r EXCEPT !.pc = "done", !.err = Nil]
    ELSE [r EXCEPT !.pc = "done", !.out = NilVal, !.err = ErrKeyNotFound]

\* Extension: the response on errExitBackendLoop, ErrExtensionUnsupported otherwise
ExtensionReturn(r, rerr) ==
    IF rerr = errExitBackendLoop
    THEN [r EXCEPT !.pc = "done", !.err = Nil]
    ELSE [r EXCEPT !.pc = "done", !.out = NilVal, !.err = ErrExtensionUnsupported]

Return(r, rerr) ==
    CASE r.op = "List" -> ListReturn(r, rerr)
      [] r.op = "Signers" -> SignersReturn(r, rerr)
      [] r.op = "Sign" -> SignReturn(r, rerr)
      [] r.op = "Extension" -> ExtensionReturn(r, rerr)

(***************************************************************************)
(* runAgainstBackends.                                                     *)
(***************************************************************************)
\* the loop header: endpoint i is next, or the chain is done and nil is returned
NextEndpoint(r, i) ==
    IF i > Len(config) THEN Return(r, Nil) ELSE [r EXCEPT !.pc = "loop", !.idx = i]

\* backendConnect: the error of the dial
backendConnect(socketPath, reachable) ==
    IF socketPath = "" THEN ErrUnimplemented
    ELSE IF ctxCancelled \/ ~reachable THEN ErrDial
    ELSE Nil


\* (a variant: a failed connect ends the traversal)
AfterConnectFailedReturns(r) == Return(r, ErrDial)

\* a failed connect: log and continue
AfterConnectFailed(r) == NextEndpoint(r, r.idx + 1)


\* (a variant: only an answer ends the traversal, a rejection goes on)
AfterCallSkipsRejection(r, ferr) ==
    IF ferr = errExitBackendLoop THEN Return(r, ferr) ELSE NextEndpoint(r, r.idx + 1)

\* after f(fb) and fbClose(): return the error of f, or go on
AfterCall(r, ferr) ==
    IF ferr # Nil THEN Return(r, ferr) ELSE NextEndpoint(r, r.idx + 1)

\* the request moves on; the deferred RUnlock runs when the operation returns
Step(r) ==
    /\ req' = r
    /\ rlock' = IF r.pc = "done" THEN FALSE ELSE rlock

\* one connection attempt of the loop
Dial ==
    /\ req.pc = "loop"
    /\ \E reachable \in BOOLEAN :
          LET err == backendConnect(config[req.idx], reachable)
          IN IF err # Nil
             THEN Step(AfterConnectFailed(
                        [req EXCEPT !.log = Append(@, [ev |-> "dialfail", i |-> req.idx])]))
             ELSE Step([req EXCEPT !.pc = "call", !.conn = req.idx,
                                   !.log = Append(@, [ev |-> "connected", i |-> req.idx])])
    /\ UNCHANGED <<config, ctxCancelled, localKeys, backends, added>>
    /\ UNCHANGED outsideEngine

\* (a variant: fbClose() is skipped when f returned an error)
CallClosesOnSuccess ==
    /\ req.pc = "call"
    /\ \E outcome \in Outcomes :
          LET res == F(req, outcome)
              closed == [res.r EXCEPT !.conn = IF res.ferr = Nil THEN 0 ELSE @,
                                      !.log = Append(@, [ev |-> "call", i |-> req.idx,
                                                         val |-> res.back.val,
                                                         err |-> res.back.err])]
          IN Step(AfterCall(closed, res.ferr))
    /\ UNCHANGED <<config, ctxCancelled, localKeys, backends, added>>
    /\ UNCHANGED outsideEngine

\* f(fb), fbClose() and the test of f's error
Call ==
    /\ req.pc = "call"
    /\ \E outcome \in Outcomes :
          LET res == F(req, outcome)
              closed == [res.r EXCEPT !.conn = 0,
                                      !.log = Append(@, [ev |-> "call", i |-> req.idx,
                                                         val |-> res.back.val,
                                                         err |-> res.back.err])]
          IN Step(AfterCall(closed, res.ferr))
    /\ UNCHANGED <<config, ctxCancelled, localKeys, backends, added>>
    /\ UNCHANGED outsideEngine

\* the caller has its answer; the connection handler is ready for the next request
Deliver ==
    /\ req.pc = "done"
    /\ req' = IdleReq
    /\ UNCHANGED <<config, ctxCancelled, localKeys, rlock, backends, added>>
    /\ UNCHANGED outsideEngine

(***************************************************************************)
(* The forwarding operations.                                              *)
(***************************************************************************)
\* List: the local keys under RLock, then the backends
List ==
    /\ req.pc = "idle"
    /\ \E order \in Orders(DOMAIN localKeys) :
          LET r == NextEndpoint([IdleReq EXCEPT !.op = "List", !.acc = LocalList(order)], 1)
          IN /\ req' = r
             /\ rlock' = (r.pc # "done")
    /\ UNCHANGED <<config, ctxCancelled, localKeys, backends, added>>
    /\ UNCHANGED outsideEngine

\* Signers: the local signers under RLock, then the backends
Signers ==
    /\ req.pc = "idle"
    /\ \E order \in Orders(DOMAIN localKeys) :
          LET r == NextEndpoint([IdleReq EXCEPT !.op = "Signers", !.acc = LocalSigners(order)], 1)
          IN /\ req' = r
             /\ rlock' = (r.pc # "done")
    /\ UNCHANGED <<config, ctxCancelled, localKeys, backends, added>>
    /\ UNCHANGED outsideEngine

\* the found branch of SignWithFlags: the signature and the error it returns
SignLocal(addedKey, key, flags, signerWorks) ==
    IF ~HasSigner(addedKey)
    THEN [out |-> NilVal, err |-> "failed to create signer from local key"]
    ELSE LET sig == IF flags # 0
                    THEN SignWithAlgorithm(addedKey, AlgorithmFor(key, flags), signerWorks)
                    ELSE SignWithAlgorithm(addedKey, key.Type, signerWorks)
         IN [out |-> sig, err |-> IF sig = NilVal THEN ErrLocalSign ELSE Nil]


\* (a variant: a local signing failure falls back to the backends)
SignStartFallsBack(key, flags, signerWorks) ==
    LET r == [IdleReq EXCEPT !.op = "Sign", !.key = key, !.flags = flags]
    IN IF Marshal(key) \in DOMAIN localKeys
       THEN LET s == SignLocal(localKeys[Marshal(key)], key, flags, signerWorks)
            IN IF s.err = Nil
               THEN [r EXCEPT !.pc = "done", !.out = s.out, !.err = s.err,
                              !.prev = localKeys[Marshal(key)]]
               ELSE NextEndpoint([r EXCEPT !.prev = localKeys[Marshal(key)]], 1)
       ELSE NextEndpoint(r, 1)

\* SignWithFlags up to its first suspension: the lookup under RLock, then
\* either the local signature or the entry into the backend loop
SignStart(key, flags, signerWorks) ==
    LET r == [IdleReq EXCEPT !.op = "Sign", !.key = key, !.flags = flags]
    IN IF Marshal(key) \in DOMAIN localKeys
       THEN LET s == SignLocal(localKeys[Marshal(key)], key, flags, signerWorks)
            IN [r EXCEPT !.pc = "done", !.out = s.out, !.err = s.err,
                         !.prev = localKeys[Marshal(key)]]
       ELSE NextEndpoint(r, 1)

\* Sign(key, data) is SignWithFlags(key, data, 0)
SignWithFlags ==
    /\ req.pc = "idle"
    /\ \E key \in PublicKeys, flags \in Flags, signerWorks \in BOOLEAN :
          Step(SignStart(key, flags, signerWorks))
    /\ UNCHANGED <<config, ctxCancelled, localKeys, backends, added>>
    /\ UNCHANGED outsideEngine

\* HandleExtensionProto: unmarshal, handle, marshal
HandleExtensionProto(ext, contents) ==
    IF contents = "garbage"
    THEN [out |-> NilVal, err |-> ErrUnmarshal]
    ELSE [out |-> [by |-> 0, ext |-> ext], err |-> Nil]

\* handleMuxExtension: the three local extension types; shutdown cancels the
\* context by a deferred call
handleMuxExtension(ext, contents) ==
    CASE ext \in {"ping", "config"} ->
            [res |-> HandleExtensionProto(ext, contents), cancel |-> FALSE]
      [] ext = "shutdown" ->
            [res |-> HandleExtensionProto(ext, contents), cancel |-> TRUE]
      [] OTHER ->
            [res |-> [out |-> NilVal, err |-> ErrExtensionUnsupported], cancel |-> FALSE]

\* (a variant: only a nil error of the local handler ends the call)
ExtensionStartForwardsFailures(ext, contents) ==
    LET r == [IdleReq EXCEPT !.op = "Extension", !.ext = ext]
        v == handleMuxExtension(ext, contents).res
    IN IF v.err = Nil
       THEN [r EXCEPT !.pc = "done", !.out = v.out, !.err = v.err]
       ELSE NextEndpoint(r, 1)

\* Extension up to its first suspension
ExtensionStart(ext, contents) ==
    LET r == [IdleReq EXCEPT !.op = "Extension", !.ext = ext]
        v == handleMuxExtension(ext, contents).res
    IN IF v.err = Nil \/ v.err # ErrExtensionUnsupported
       THEN [r EXCEPT !.pc = "done", !.out = v.out, !.err = v.err]
       ELSE NextEndpoint(r, 1)

Extension ==
    /\ req.pc = "idle"
    /\ \E ext \in ExtensionTypes, contents \in Payloads :
          /\ Step(ExtensionStart(ext, contents))
          /\ ctxCancelled' = (ctxCancelled \/ handleMuxExtension(ext, contents).cancel)
    /\ UNCHANGED <<config, localKeys, backends, added>>
    /\ UNCHANGED outsideEngine

(***************************************************************************)
(* The local-only operations.  Each holds keysMutex.Lock from entry to     *)
(* return, so it runs only while no reader holds the lock.  Each yields    *)
(* the key map it leaves, the error it returns and the backend contacts it *)
(* made on the way.                                                        *)
(***************************************************************************)

\* (a variant: the key is offered to the first backend as well)
AddBodyForwards(key) ==
    IF ~IsCryptoSigner(key.PrivateKey)
    THEN [keys |-> localKeys, err |-> ErrNotSigner, log |-> <<>>]
    ELSE IF NewPublicKey(key.PrivateKey) = NilVal
    THEN [keys |-> localKeys, err |-> ErrConvertPublicKey, log |-> <<>>]
    ELSE [keys |-> MapSet(localKeys, Marshal(NewPublicKey(key.PrivateKey)), key),
          err |-> Nil,
          log |-> IF Len(config) > 0
                  THEN <<[ev |-> "connected", i |-> 1],
                         [ev |-> "call", i |-> 1, val |-> NilVal, err |-> ErrBackendFailure]>>
                  ELSE <<>>]

\* Add
AddBody(key) ==
    IF ~IsCryptoSigner(key.PrivateKey)
    THEN [keys |-> localKeys, err |-> ErrNotSigner, log |-> <<>>]
    ELSE IF NewPublicKey(key.PrivateKey) = NilVal
    THEN [keys |-> localKeys, err |-> ErrConvertPublicKey, log |-> <<>>]
    ELSE [keys |-> MapSet(localKeys, Marshal(NewPublicKey(key.PrivateKey)), key),
          err |-> Nil, log |-> <<>>]


\* (a variant: a key that is not stored is an error)
RemoveBodyStrict(key) ==
    IF Marshal(key) \in DOMAIN localKeys
    THEN [keys |-> MapDelete(localKeys, Marshal(key)), err |-> Nil, log |-> <<>>]
    ELSE [keys |-> localKeys, err |-> ErrKeyNotFound, log |-> <<>>]

\* Remove
RemoveBody(key) ==
    [keys |-> MapDelete(localKeys, Marshal(key)), err |-> Nil, log |-> <<>>]


\* (a variant: the fresh map never replaces m.localKeys)
RemoveAllBodyShadowed ==
    [keys |-> localKeys, err |-> Nil, log |-> <<>>]

\* RemoveAll
RemoveAllBody ==
    [keys |-> <<>>, err |-> Nil, log |-> <<>>]

\* history: the pairs added and not removed since, kept beside the code
AddedAfterAdd(key) ==
    IF IsCryptoSigner(key.PrivateKey) /\ NewPublicKey(key.PrivateKey) # NilVal
    THEN {p \in added : p[1] # Marshal(NewPublicKey(key.PrivateKey))}
            \cup {<<Marshal(NewPublicKey(key.PrivateKey)), key.Comment>>}
    ELSE added

AddedAfterRemove(key) == {p \in added : p[1] # Marshal(key)}

\* the request record of a local-only call that has returned
Local(op, key, b, prev) ==
    [IdleReq EXCEPT !.op = op, !.pc = "done", !.key = key, !.err = b.err, !.log = b.log,
                    !.prev = prev]

\* what the key map holds under a blob, NilVal when nothing
Stored(blob) == IF blob \in DOMAIN localKeys THEN localKeys[blob] ELSE NilVal

\* (a variant: an empty comment is replaced by the key type before storing)
AddNamesEmptyComment ==
    /\ req.pc = "idle"
    /\ ~rlock
    /\ \E m \in Materials, c \in Comments :
          LET key == [PrivateKey |-> m, Comment |-> c]
              named == [PrivateKey |-> m, Comment |-> IF c = "" THEN m.kind ELSE c]
          IN /\ localKeys' = AddBody(named).keys
             /\ req' = Local("Add", key, AddBody(named),
                             IF NewPublicKey(m) = NilVal THEN NilVal
                             ELSE Stored(Marshal(NewPublicKey(m))))
             /\ added' = AddedAfterAdd(key)
    /\ UNCHANGED <<config, ctxCancelled, rlock, backends>>
    /\ UNCHANGED outsideEngine

\* the three calls on the connection under observation
Add ==
    /\ req.pc = "idle"
    /\ ~rlock
    /\ \E m \in Materials, c \in Comments :
          LET key == [PrivateKey |-> m, Comment |-> c]
          IN /\ localKeys' = AddBody(key).keys
             /\ req' = Local("Add", key, AddBody(key),
                             IF NewPublicKey(m) = NilVal THEN NilVal
                             ELSE Stored(Marshal(NewPublicKey(m))))
             /\ added' = AddedAfterAdd(key)
    /\ UNCHANGED <<config, ctxCancelled, rlock, backends>>
    /\ UNCHANGED outsideEngine

Remove ==
    /\ req.pc = "idle"
    /\ ~rlock
    /\ \E key \in PublicKeys :
          /\ localKeys' = RemoveBody(key).keys
          /\ req' = Local("Remove", key, RemoveBody(key), Stored(Marshal(key)))
          /\ added' = AddedAfterRemove(key)
    /\ UNCHANGED <<config, ctxCancelled, rlock, backends>>
    /\ UNCHANGED outsideEngine

RemoveAll ==
    /\ req.pc = "idle"
    /\ ~rlock
    /\ localKeys' = RemoveAllBody.keys
    /\ req' = Local("RemoveAll", NilVal, RemoveAllBody,
                    [n |-> Cardinality(DOMAIN localKeys)])
    /\ added' = {}
    /\ UNCHANGED <<config, ctxCancelled, rlock, backends>>
    /\ UNCHANGED outsideEngine

\* passphrases a client can offer
Passphrases == {"", "pw"}

\* fmt.Errorf("locking %w", ErrUnimplemented), and errors.Is on the result
Wrap(what, err) == what \o " " \o err
ErrorsIs(err, target) ==
    err = target \/ \E what \in {"locking", "unlocking"} : err = Wrap(what, target)


\* (a variant: Lock succeeds and hides the stored keys)
LockBodyLocks(passphrase) ==
    [keys |-> <<>>, err |-> Nil, log |-> <<>>]

\* Lock: the passphrase is ignored, nothing is touched
LockBody(passphrase) ==
    [keys |-> localKeys, err |-> Wrap("locking", ErrUnimplemented), log |-> <<>>]

\* Unlock
UnlockBody(passphrase) ==
    [keys |-> localKeys, err |-> Wrap("unlocking", ErrUnimplemented), log |-> <<>>]

\* Lock takes no lock of keysMutex: it runs whatever the readers hold
Lock ==
    /\ req.pc = "idle"
    /\ \E passphrase \in Passphrases :
          /\ localKeys' = LockBody(passphrase).keys
          /\ req' = Local("Lock", NilVal, LockBody(passphrase), NilVal)
    /\ UNCHANGED <<config, ctxCancelled, rlock, backends, added>>
    /\ UNCHANGED outsideEngine

Unlock ==
    /\ req.pc = "idle"
    /\ \E passphrase \in Passphrases :
          /\ localKeys' = UnlockBody(passphrase).keys
          /\ req' = Local("Unlock", NilVal, UnlockBody(passphrase), NilVal)
    /\ UNCHANGED <<config, ctxCancelled, rlock, backends, added>>
    /\ UNCHANGED outsideEngine

\* the same calls arriving on another connection while the request under
\* observation is in flight: they wait for the write lock like any other
ConcurrentAdd ==
    /\ req.pc \in {"loop", "call"}
    /\ ~rlock
    /\ \E m \in Materials, c \in Comments :
          LET key == [PrivateKey |-> m, Comment |-> c]
          IN /\ localKeys' = AddBody(key).keys
             /\ added' = AddedAfterAdd(key)
    /\ UNCHANGED <<config, ctxCancelled, rlock, backends, req>>
    /\ UNCHANGED outsideEngine

ConcurrentRemove ==
    /\ req.pc \in {"loop", "call"}
    /\ ~rlock
    /\ \E key \in PublicKeys :
          /\ localKeys' = RemoveBody(key).keys
          /\ added' = AddedAfterRemove(key)
    /\ UNCHANGED <<config, ctxCancelled, rlock, backends, req>>
    /\ UNCHANGED outsideEngine

ConcurrentRemoveAll ==
    /\ req.pc \in {"loop", "call"}
    /\ ~rlock
    /\ localKeys' = RemoveAllBody.keys
    /\ added' = {}
    /\ UNCHANGED <<config, ctxCancelled, rlock, backends, req>>
    /\ UNCHANGED outsideEngine

\* the environment: a backend agent gains or loses keys
BackendChange ==
    /\ \E p \in BackendPaths, l \in BackendKeyLists :
          /\ l # backends[p]
          /\ backends' = [backends EXCEPT ![p] = l]
    /\ UNCHANGED <<config, ctxCancelled, localKeys, rlock, req, added>>
    /\ UNCHANGED outsideEngine

Next ==
    \/ List
    \/ Signers
    \/ SignWithFlags
    \/ Extension
    \/ Dial
    \/ Call
    \/ Deliver
    \/ Add
    \/ Remove
    \/ RemoveAll
    \/ Lock
    \/ Unlock
    \/ ConcurrentAdd
    \/ ConcurrentRemove
    \/ ConcurrentRemoveAll
    \/ BackendChange

Spec == Init /\ [][Next]_vars

(***************************************************************************)
(* The connection server: runEventLoop, its accept goroutine and the       *)
(* handleConnection goroutines.  A connection is "free" until a client     *)
(* opens it, then "backlog" (connected, not yet returned by Accept),       *)
(* "held" (returned by Accept, on its way through connChan), "serving" (a  *)
(* handler runs ServeAgent on it) and "closed" (the server closed it).     *)
(* While served, pc is where ServeAgent is: "read" (waiting for a          *)
(* request), "handle" (the request is read), "defer" (the response is      *)
(* built and a deferred call is pending), "write" (the response is built   *)
(* and not yet written).  rq is the request the peer has sent and has no   *)
(* response to yet.                                                        *)
(***************************************************************************)
\* signal.Notify(sigChan, os.Interrupt, syscall.SIGTERM)
ServerSignals == {"interrupt", "terminated"}

\* what a client asks for: any agent request, or the shutdown extension
Requests == {"list", "shutdown"}

defaultSignalChannelBufferSize == 1
errChanBufferSize == 1

\* the errors runEventLoop returns
ErrContextCanceled == "context canceled"
ErrSignalReceived == "signal received"
ErrAccept == "accept failed"
ErrListenerClosed == "use of closed network connection"
ErrEOF == "EOF"

\* a send that does not block: dropped when the buffer is full
TrySend(ch, cap, v) == IF Len(ch) < cap THEN Append(ch, v) ELSE ch

\* the operating system delivers one of the notified signals to the process
Signal ==
    /\ loop.pc \notin {"returned", "ended"}
    /\ \E sig \in ServerSignals :
          sigChan' = TrySend(sigChan, defaultSignalChannelBufferSize, sig)
    /\ UNCHANGED <<ctxCancelled, listener, acceptor, errChan, wg, loop, conns>>
    /\ UNCHANGED outsideServer

\* a client connects to the listening socket
ClientConnect ==
    /\ listener = "open"
    /\ \E c \in ConnIds :
          /\ conns[c].st = "free"
          /\ conns' = [conns EXCEPT ![c].st = "backlog"]
    /\ UNCHANGED <<ctxCancelled, listener, acceptor, errChan, sigChan, wg, loop>>
    /\ UNCHANGED outsideServer

\* a client with no request outstanding sends one
ClientSend ==
    /\ \E c \in ConnIds, rq \in Requests :
          /\ conns[c].st \in {"backlog", "held", "serving"}
          /\ conns[c].peer = "open"
          /\ conns[c].rq = "none"
          /\ conns' = [conns EXCEPT ![c].rq = rq]
    /\ UNCHANGED <<ctxCancelled, listener, acceptor, errChan, sigChan, wg, loop>>
    /\ UNCHANGED outsideServer

\* a client closes its end
ClientClose ==
    /\ \E c \in ConnIds :
          /\ conns[c].st # "free"
          /\ conns[c].peer = "open"
          /\ conns' = [conns EXCEPT ![c].peer = "closed"]
    /\ UNCHANGED <<ctxCancelled, listener, acceptor, errChan, sigChan, wg, loop>>
    /\ UNCHANGED outsideServer

\* the accept goroutine: listener.Accept() returns a connection
AcceptConn ==
    /\ acceptor.pc = "Accept"
    /\ listener = "open"
    /\ \E c \in ConnIds :
          /\ conns[c].st = "backlog"
          /\ conns' = [conns EXCEPT ![c].st = "held"]
          /\ acceptor' = [pc |-> "send", conn |-> c]
    /\ UNCHANGED <<ctxCancelled, listener, errChan, sigChan, wg, loop>>
    /\ UNCHANGED outsideServer

\* the accept goroutine: listener.Accept() fails, because the listener is
\* closed or for a reason of the operating system; the error goes to errChan
\* when there is room, and the goroutine ends
AcceptError ==
    /\ acceptor.pc = "Accept"
    /\ errChan' = TrySend(errChan, errChanBufferSize,
                          IF listener = "closed" THEN ErrListenerClosed ELSE ErrAccept)
    /\ acceptor' = [pc |-> "exited", conn |-> 0]
    /\ UNCHANGED <<ctxCancelled, listener, sigChan, wg, loop, conns>>
    /\ UNCHANGED outsideServer

\* the accept goroutine, holding a connection: case <-ctx.Done()
AcceptCtxDone ==
    /\ acceptor.pc = "send"
    /\ ctxCancelled
    /\ conns' = [conns EXCEPT ![acceptor.conn].st = "closed"]
    /\ acceptor' = [pc |-> "exited", conn |-> 0]
    /\ UNCHANGED <<ctxCancelled, listener, errChan, sigChan, wg, loop>>
    /\ UNCHANGED outsideServer

\* the main loop: case conn := <-connChan, the other side of the accept
\* goroutine's case connChan <- conn; wg.Add(1) and go handleConnection
LoopNewConn ==
    /\ loop.pc = "select"
    /\ acceptor.pc = "send"
    /\ wg' = wg + 1
    /\ conns' = [conns EXCEPT ![acceptor.conn].st = "serving", ![acceptor.conn].pc = "read"]
    /\ acceptor' = [pc |-> "Accept", conn |-> 0]
    /\ UNCHANGED <<ctxCancelled, listener, errChan, sigChan, loop>>
    /\ UNCHANGED outsideServer

\* the main loop: case <-ctx.Done(), up to wg.Wait()
LoopCtxDone ==
    /\ loop.pc = "select"
    /\ ctxCancelled
    /\ listener' = "closed"
    /\ loop' = [pc |-> "wait", why |-> "ctx", err |-> ErrContextCanceled, exit |-> Nil]
    /\ UNCHANGED <<ctxCancelled, acceptor, errChan, sigChan, wg, conns>>
    /\ UNCHANGED outsideServer


\* the main loop: case sig := <-sigChan, up to wg.Wait()
LoopSignal ==
    /\ loop.pc = "select"
    /\ sigChan # <<>>
    /\ sigChan' = Tail(sigChan)
    /\ listener' = "closed"
    /\ loop' = [pc |-> "wait", why |-> "sig", err |-> ErrSignalReceived, exit |-> Nil]
    /\ UNCHANGED <<ctxCancelled, acceptor, errChan, wg, conns>>
    /\ UNCHANGED outsideServer

\* the main loop: case err := <-errChan, up to wg.Wait()
LoopAcceptError ==
    /\ loop.pc = "select"
    /\ errChan # <<>>
    /\ errChan' = Tail(errChan)
    /\ loop' = [pc |-> "wait", why |-> "err", err |-> Head(errChan), exit |-> Nil]
    /\ UNCHANGED <<ctxCancelled, listener, acceptor, sigChan, wg, conns>>
    /\ UNCHANGED outsideServer


\* (a variant: the loop returns without waiting for the handlers)
WaitDoneAtOnce == TRUE

\* wg.Wait() returns
WaitDone == wg = 0

\* (a variant: only cancellation and the end of the stream are a clean exit)
wrapEventLoopSignalFails(err) ==
    IF err \in {ErrContextCanceled, ErrEOF} THEN Nil ELSE err

\* wrapEventLoop: what mainCommand returns for the error of runEventLoop
wrapEventLoop(err) ==
    IF err \in {ErrContextCanceled, ErrEOF, ErrSignalReceived} THEN Nil ELSE err

\* the main loop: wg.Wait() has returned, runEventLoop returns its error
\* and wrapEventLoop classifies it
LoopReturn ==
    /\ loop.pc = "wait"
    /\ WaitDone
    /\ loop' = [loop EXCEPT !.pc = "returned", !.exit = wrapEventLoop(loop.err)]
    /\ UNCHANGED <<ctxCancelled, listener, acceptor, errChan, sigChan, wg, conns>>
    /\ UNCHANGED outsideServer

\* ServeAgent reads the next request of the connection
HandlerRead ==
    /\ \E c \in ConnIds :
          /\ conns[c].st = "serving"
          /\ conns[c].pc = "read"
          /\ conns[c].rq # "none"
          /\ conns' = [conns EXCEPT ![c].pc = "handle"]
    /\ UNCHANGED <<ctxCancelled, listener, acceptor, errChan, sigChan, wg, loop>>
    /\ UNCHANGED outsideServer


\* (a variant: shutdown cancels the context on entry, not by a deferred call)
AfterHandleCancelsFirst(rq) ==
    [pc |-> "write",
     cancel |-> rq = "shutdown" /\ handleMuxExtension(rq, "valid").cancel]

\* the engine call made for a request: where the handler is once the
\* response is built, and whether the context is cancelled by then
AfterHandle(rq) ==
    [pc |-> IF rq = "shutdown" /\ handleMuxExtension(rq, "valid").cancel
            THEN "defer" ELSE "write",
     cancel |-> FALSE]

\* ServeAgent calls the engine, which builds the response
HandlerHandle ==
    /\ \E c \in ConnIds :
          /\ conns[c].st = "serving"
          /\ conns[c].pc = "handle"
          /\ conns' = [conns EXCEPT ![c].pc = AfterHandle(conns[c].rq).pc]
          /\ ctxCancelled' = (ctxCancelled \/ AfterHandle(conns[c].rq).cancel)
    /\ UNCHANGED <<listener, acceptor, errChan, sigChan, wg, loop>>
    /\ UNCHANGED outsideServer

\* handleMuxExtension returns from the shutdown case: defer m.ctx.Cancel()
HandlerDeferredCancel ==
    /\ \E c \in ConnIds :
          /\ conns[c].st = "serving"
          /\ conns[c].pc = "defer"
          /\ conns' = [conns EXCEPT ![c].pc = "write"]
    /\ ctxCancelled' = TRUE
    /\ UNCHANGED <<listener, acceptor, errChan, sigChan, wg, loop>>
    /\ UNCHANGED outsideServer

\* ServeAgent writes the response to a peer that is still there
HandlerWrite ==
    /\ \E c \in ConnIds :
          /\ conns[c].st = "serving"
          /\ conns[c].pc = "write"
          /\ conns[c].peer = "open"
          /\ conns' = [conns EXCEPT ![c].pc = "read", ![c].rq = "none"]
    /\ UNCHANGED <<ctxCancelled, listener, acceptor, errChan, sigChan, wg, loop>>
    /\ UNCHANGED outsideServer


\* (a variant: ServeAgent also returns once the context is cancelled and the
\* connection has no request)
ServeAgentReturnsOnCancel(c) ==
    \/ conns[c].pc = "read" /\ conns[c].rq = "none"
          /\ (conns[c].peer = "closed" \/ ctxCancelled)
    \/ conns[c].pc = "write" /\ conns[c].peer = "closed"

\* ServeAgent returns: the read met the end of the stream, or the write
\* failed, the peer being gone
ServeAgentReturns(c) ==
    \/ conns[c].pc = "read" /\ conns[c].rq = "none" /\ conns[c].peer = "closed"
    \/ conns[c].pc = "write" /\ conns[c].peer = "closed"

\* handleConnection returns on connection c: the deferred conn.Close() and
\* wg.Done()
HandlerExitOf(c) ==
    /\ conns[c].st = "serving"
    /\ ServeAgentReturns(c)
    /\ conns' = [conns EXCEPT ![c].st = "closed"]
    /\ wg' = wg - 1
    /\ UNCHANGED <<ctxCancelled, listener, acceptor, errChan, sigChan, loop>>
    /\ UNCHANGED outsideServer

HandlerExit == \E c \in ConnIds : HandlerExitOf(c)

\* a step of the server process itself, none of its clients or of the
\* operating system
ServerStep ==
    \/ AcceptConn
    \/ AcceptError
    \/ AcceptCtxDone
    \/ LoopNewConn
    \/ LoopCtxDone
    \/ LoopSignal
    \/ LoopAcceptError
    \/ LoopReturn
    \/ HandlerRead
    \/ HandlerHandle
    \/ HandlerDeferredCancel
    \/ HandlerWrite
    \/ HandlerExit

InitServer ==
    /\ EngineIdle
    /\ ctxCancelled = FALSE
    /\ ServerInit
    /\ PingInit
    /\ StartupInit
    /\ DaemonInit
    /\ ClientInit
    /\ CommandInit
    /\ PingInit

NextServer ==
    \/ Signal
    \/ ClientConnect
    \/ ClientSend
    \/ ClientClose
    \/ AcceptConn
    \/ AcceptError
    \/ AcceptCtxDone
    \/ LoopNewConn
    \/ LoopCtxDone
    \/ LoopSignal
    \/ LoopAcceptError
    \/ LoopReturn
    \/ HandlerRead
    \/ HandlerHandle
    \/ HandlerDeferredCancel
    \/ HandlerWrite
    \/ HandlerExit

SpecServer == InitServer /\ [][NextServer]_vars

(***************************************************************************)
(* The server up to the return of mainCommand: wrapEventLoop has returned  *)
(* and the deferred calls of mainCommand run.                              *)
(***************************************************************************)
\* (a variant: mainCommand has no deferred ctx.Cancel())
MainDeferredNoCancel ==
    /\ loop.pc = "returned"
    /\ loop' = [loop EXCEPT !.pc = "ended"]
    /\ listener' = "closed"
    /\ UNCHANGED <<ctxCancelled, acceptor, errChan, sigChan, wg, conns>>
    /\ UNCHANGED outsideServer

\* mainCommand returns what wrapEventLoop returned and its deferred calls
\* run: the cancel of makeListener (listener.Close()) and ctx.Cancel()
MainDeferred ==
    /\ loop.pc = "returned"
    /\ loop' = [loop EXCEPT !.pc = "ended"]
    /\ listener' = "closed"
    /\ ctxCancelled' = TRUE
    /\ UNCHANGED <<acceptor, errChan, sigChan, wg, conns>>
    /\ UNCHANGED outsideServer

\* listener.Accept() returns its error once the listener is closed
AcceptUnblocked == listener = "closed" /\ AcceptError

NextServerMain ==
    \/ NextServer
    \/ MainDeferred

\* the goroutines of the process are scheduled: mainCommand runs its
\* deferred calls, the accept goroutine takes the step that a closed
\* listener or a cancelled context makes ready, the main loop takes a
\* connection that is handed to it and returns from a wg.Wait() that is
\* over, and a handler takes the step that is ready; nothing is assumed of
\* the clients
SpecServerMain ==
    /\ InitServer
    /\ [][NextServerMain]_vars
    /\ WF_vars(MainDeferred)
    /\ WF_vars(AcceptUnblocked)
    /\ WF_vars(AcceptCtxDone)
    /\ WF_vars(LoopNewConn)
    /\ WF_vars(LoopReturn)
    /\ WF_vars(HandlerRead)
    /\ WF_vars(HandlerHandle)
    /\ WF_vars(HandlerDeferredCancel)
    /\ WF_vars(HandlerWrite)
    /\ \A c \in ConnIds : WF_vars(HandlerExitOf(c))

(***************************************************************************)
(* The ping exchange: a client marshals a Ping and sends it as the "ping"  *)
(* extension, handlePing builds the Pong.  Config queries, the "config"    *)
(* extension, are answered by handleConfig beside it.                      *)
(***************************************************************************)
PingIds == {"a", "b"}

\* proto.Marshal and proto.Unmarshal of an api.Ping: the fields in order
MarshalPing(msg) == <<"Ping", msg.Id, msg.Ts>>
UnmarshalPing(bytes) == [Id |-> bytes[2], Ts |-> bytes[3]]

\* time passes
Tick ==
    /\ clock < MaxClock
    /\ clock' = clock + 1
    /\ UNCHANGED <<proc, ping, pong, mconfig, cfgReplies>>
    /\ UNCHANGED outsidePing

\* MuxClient.Ping: a fresh id and Ts: timestamppb.Now()
MuxClientPing ==
    /\ \E id \in PingIds :
          ping' = [bytes |-> MarshalPing([Id |-> id, Ts |-> clock]), sent |-> clock]
    /\ pong' = NilVal
    /\ UNCHANGED <<clock, proc, mconfig, cfgReplies>>
    /\ UNCHANGED outsidePing

\* any other agent client calling Extension("ping", ...) with a Ping that
\* decodes: the timestamp in it is the sender's to choose
ExtensionPing ==
    /\ \E id \in PingIds, ts \in 0..MaxClock :
          ping' = [bytes |-> MarshalPing([Id |-> id, Ts |-> ts]), sent |-> clock]
    /\ pong' = NilVal
    /\ UNCHANGED <<clock, proc, mconfig, cfgReplies>>
    /\ UNCHANGED outsidePing


\* (a variant: the reply timestamp is copied from the ping)
handlePingCopiesTs(msg, now) ==
    [Id |-> msg.Id, PingTs |-> msg.Ts, Ts |-> msg.Ts,
     Pid |-> proc.Pid, StartTime |-> proc.StartTime]

\* handlePing
handlePing(msg, now) ==
    [Id |-> msg.Id, PingTs |-> msg.Ts, Ts |-> now,
     Pid |-> proc.Pid, StartTime |-> proc.StartTime]

\* the server decodes the ping and answers it
HandlePing ==
    /\ ping # NilVal
    /\ pong = NilVal
    /\ pong' = handlePing(UnmarshalPing(ping.bytes), clock)
    /\ UNCHANGED <<clock, proc, ping, mconfig, cfgReplies>>
    /\ UNCHANGED outsidePing

\* the ids uuid.NewString() can return
ConfigIds == {"u", "v"}


\* (a variant: the id and the timestamp are set on m.config itself, which is
\* returned)
handleConfigInPlace(id, now) ==
    LET cfg == [mconfig EXCEPT !.Id = id, !.Ts = now]
    IN [cfg |-> cfg, stored |-> cfg]

\* handleConfig: proto.Clone(m.config), then SetId and SetTs on the clone;
\* the message returned and m.config afterwards
handleConfig(id, now) ==
    LET clone == [f \in DOMAIN mconfig |-> mconfig[f]]
    IN [cfg |-> [clone EXCEPT !.Id = id, !.Ts = now], stored |-> mconfig]

\* Extension("config", contents): HandleExtensionProto around handleConfig;
\* contents that do not decode are answered with an error
HandleConfig ==
    /\ \E contents \in Payloads, id \in ConfigIds :
          LET h == handleConfig(id, clock)
              reply == IF contents = "garbage"
                       THEN [out |-> NilVal, err |-> ErrUnmarshal]
                       ELSE [out |-> h.cfg, err |-> Nil]
          IN /\ cfgReplies' = IF Len(cfgReplies) < 2 THEN Append(cfgReplies, reply)
                              ELSE <<cfgReplies[2], reply>>
             /\ mconfig' = IF contents = "garbage" THEN mconfig ELSE h.stored
    /\ UNCHANGED <<clock, proc, ping, pong>>
    /\ UNCHANGED outsidePing

InitPing ==
    /\ EngineIdle
    /\ ctxCancelled = FALSE
    /\ ServerInit
    /\ PingInit
    /\ StartupInit
    /\ DaemonInit
    /\ ClientInit
    /\ CommandInit

NextPing ==
    \/ Tick
    \/ MuxClientPing
    \/ ExtensionPing
    \/ HandlePing
    \/ HandleConfig

SpecPing == InitPing /\ [][NextPing]_vars

(***************************************************************************)
(* The start of an instance: mainCommand up to wrapEventLoop, while        *)
(* another instance may bind the same path, exit and leave its socket file *)
(* behind, or exit and remove it.  The role of the process is "server"     *)
(* when it goes on to serve (foreground, or the daemon child) and "parent" *)
(* when it is the process that daemonizes and waits for the socket.        *)
(***************************************************************************)
\* mainCommand returns err
BootReturn(err) == [boot EXCEPT !.pc = "done", !.err = err]

\* (a variant: the two markers the wrong way round)
InitialMarkerSwapped(justOne) == IF justOne THEN "1" ELSE "2"

\* izeInitialMode: the marker set for the process it starts
InitialMarker(justOne) == IF justOne THEN "2" ELSE "1"

\* the marker the program is executed with: unset, or the child marker that
\* daemon.Ize(daemon.WithNoRestart(), ...) sets for the process it starts
LaunchMarkers == {"", "2"}

\* mainCommand up to the test of foreground: in foreground mode on to
\* removeSocketIfExists, otherwise `go daemon.Ize(...)`, which makes the
\* goroutine ready to run, and on to daemon.AmI()
mainCommand ==
    /\ boot.pc = "start"
    /\ \E foreground \in BOOLEAN, launch \in LaunchMarkers :
          boot' = IF foreground
                  THEN [boot EXCEPT !.pc = "stat", !.role = "server",
                                    !.foreground = TRUE,
                                    !.launch = launch, !.marker = launch]
                  ELSE [boot EXCEPT !.pc = "AmI", !.ize = "ready",
                                    !.launch = launch, !.marker = launch]
    /\ UNCHANGED <<sock, peerAlive>>
    /\ UNCHANGED outsideStartup

\* the goroutine of daemon.Ize(WithNoRestart(), WithNoExit()) runs, as long
\* as the process lives: with the marker unset izeInitialMode sets it to "2"
\* in the environment of the process and starts the child; with the child
\* marker Ize returns
IzeTask ==
    /\ boot.ize = "ready"
    /\ boot.pc # "done"
    /\ boot' = [boot EXCEPT !.ize = "done",
                            !.marker = IF @ = "" THEN InitialMarker(TRUE) ELSE @]
    /\ UNCHANGED <<sock, peerAlive>>
    /\ UNCHANGED outsideStartup

\* daemon.AmI(): os.Getenv(ENVVAR) != ""
AmI == boot.marker # ""

\* mainCommand at `if !daemon.AmI()`: runMainProgramDaemonMode for the
\* process that is not the daemon, on to removeSocketIfExists for the one
\* that is
DaemonOrParent ==
    /\ boot.pc = "AmI"
    /\ boot' = IF AmI
               THEN [boot EXCEPT !.pc = "stat", !.role = "server"]
               ELSE [boot EXCEPT !.pc = "wait", !.role = "parent"]
    /\ UNCHANGED <<sock, peerAlive>>
    /\ UNCHANGED outsideStartup

\* (a variant: the loop does not look at the context; with nothing at the
\* path the rounds go on and on, counted modulo the bound)
waitForSocketToExistNoDeadline ==
    /\ boot.pc = "wait"
    /\ \E statFails \in BOOLEAN :
          boot' = IF statFails THEN BootReturn("stat failed")
                  ELSE IF sock # "absent" THEN [boot EXCEPT !.pc = "stat"]
                  ELSE [boot EXCEPT !.rounds = (@ + 1) % (MaxRetries + 1)]
    /\ UNCHANGED <<sock, peerAlive>>
    /\ UNCHANGED outsideStartup

\* runMainProgramDaemonMode: one round of waitForSocketToExist under the
\* context with the timeout.  os.Stat failing for another reason than
\* not-exist returns its error; the path existing ends the wait, and
\* removeSocketIfExists is next; the context done (the deadline has passed,
\* at the latest after MaxRetries sleeps) returns ctx.Err(); otherwise
\* time.Sleep(retryInterval) and another round
waitForSocketToExist ==
    /\ boot.pc = "wait"
    /\ \E statFails, expired \in BOOLEAN :
          boot' = IF statFails THEN BootReturn("stat failed")
                  ELSE IF sock # "absent" THEN [boot EXCEPT !.pc = "stat"]
                  ELSE IF expired \/ boot.rounds >= MaxRetries
                       THEN BootReturn("context deadline exceeded")
                  ELSE [boot EXCEPT !.rounds = @ + 1]
    /\ UNCHANGED <<sock, peerAlive>>
    /\ UNCHANGED outsideStartup

\* where removeSocketIfExists returning nil leads: the server goes on to
\* bind, the daemonizing parent to printRunningConfig
AfterSocketCheck == IF boot.role = "parent" THEN "fetch" ELSE "listen"

\* another instance binds the path, after removing a stale socket there
PeerStarts ==
    /\ ~peerAlive
    /\ sock \in {"absent", "other"}
    /\ sock' = "other"
    /\ peerAlive' = TRUE
    /\ UNCHANGED boot
    /\ UNCHANGED outsideStartup

\* the other instance ends: killed, its socket file stays; or returning from
\* its event loop, its deferred cancel removes what the path holds
PeerExits ==
    /\ peerAlive
    /\ peerAlive' = FALSE
    /\ \E clean \in BOOLEAN :
          sock' = IF clean THEN "absent" ELSE sock
    /\ UNCHANGED boot
    /\ UNCHANGED outsideStartup

\* something that is no socket is put at the path
FileCreated ==
    /\ sock = "absent"
    /\ sock' = "file"
    /\ UNCHANGED <<peerAlive, boot>>
    /\ UNCHANGED outsideStartup

\* (a variant: whatever is at the path is taken for a socket)
SocketExistsAnyFile ==
    /\ boot.pc = "stat"
    /\ \E statFails \in BOOLEAN :
          boot' = IF sock = "absent" THEN [boot EXCEPT !.pc = AfterSocketCheck]
                  ELSE IF statFails THEN BootReturn("stat failed")
                  ELSE [boot EXCEPT !.pc = "ping"]
    /\ UNCHANGED <<sock, peerAlive>>
    /\ UNCHANGED outsideStartup

\* removeSocketIfExists: conn.SocketExists(ctx)
SocketExists ==
    /\ boot.pc = "stat"
    /\ \E statFails \in BOOLEAN :
          boot' = IF sock = "absent" THEN [boot EXCEPT !.pc = AfterSocketCheck]
                  ELSE IF statFails THEN BootReturn("stat failed")
                  ELSE IF sock = "file" THEN BootReturn("file exists and is not a socket")
                  ELSE [boot EXCEPT !.pc = "ping"]
    /\ UNCHANGED <<sock, peerAlive>>
    /\ UNCHANGED outsideStartup


\* (a variant: the socket is removed whatever the ping says)
AfterPingAlwaysRemoves(answered) ==
    [boot EXCEPT !.pc = "remove", !.pinged = IF answered THEN "answered" ELSE "failed"]

\* removeSocketIfExists after conn.Ping(ctx): ErrSocketActive and
\* printRunningConfig when it was answered, RemoveSocket when not
AfterPing(answered) ==
    IF answered
    THEN [boot EXCEPT !.pc = "fetch", !.pinged = "answered"]
    ELSE [boot EXCEPT !.pc = "remove", !.pinged = "failed"]

\* removeSocketIfExists: conn.Ping(ctx), answered when an instance listens
\* on the socket at the path
PingSocket ==
    /\ boot.pc = "ping"
    /\ boot' = AfterPing(sock = "other" /\ peerAlive)
    /\ UNCHANGED <<sock, peerAlive>>
    /\ UNCHANGED outsideStartup

\* removeSocketIfExists: conn.RemoveSocket(ctx), os.Remove of the path
RemoveSocket ==
    /\ boot.pc = "remove"
    /\ \E removeFails \in BOOLEAN :
          IF sock = "absent" \/ removeFails
          THEN /\ boot' = BootReturn("failed to remove socket")
               /\ sock' = sock
          ELSE /\ boot' = [boot EXCEPT !.pc = AfterSocketCheck, !.removed = TRUE]
               /\ sock' = "absent"
    /\ UNCHANGED peerAlive
    /\ UNCHANGED outsideStartup

\* printRunningConfig: muxClient.GetConfig(ctx) and PrintConfig of its answer
printRunningConfig ==
    /\ boot.pc = "fetch"
    /\ boot' = IF sock = "other" /\ peerAlive
               THEN [BootReturn(Nil) EXCEPT !.printed = "running"]
               ELSE BootReturn("retrieving running config failed")
    /\ UNCHANGED <<sock, peerAlive>>
    /\ UNCHANGED outsideStartup

\* NewMuxAgent and makeListener: Listen binds a path that holds nothing
makeListener ==
    /\ boot.pc = "listen"
    /\ IF sock = "absent"
       THEN /\ sock' = "self"
            /\ boot' = [boot EXCEPT !.pc = "chmod", !.bound = TRUE]
       ELSE /\ sock' = sock
            /\ boot' = BootReturn("address already in use")
    /\ UNCHANGED peerAlive
    /\ UNCHANGED outsideStartup

\* os.Chmod of the socket and PrintConfig(config); when Chmod fails the
\* deferred cancel of makeListener closes the listener and removes the path
ChmodAndPrint ==
    /\ boot.pc = "chmod"
    /\ \E chmodFails \in BOOLEAN :
          IF chmodFails \/ sock = "absent"
          THEN /\ boot' = BootReturn("chmod failed")
               /\ sock' = "absent"
          ELSE /\ boot' = [boot EXCEPT !.pc = "serving", !.printed = "own"]
               /\ sock' = sock
    /\ UNCHANGED peerAlive
    /\ UNCHANGED outsideStartup

\* wrapEventLoop returns and the deferred cancel of makeListener runs
ServeReturns ==
    /\ boot.pc = "serving"
    /\ boot' = BootReturn(Nil)
    /\ sock' = "absent"
    /\ UNCHANGED peerAlive
    /\ UNCHANGED outsideStartup

InitStartup ==
    /\ EngineIdle
    /\ ctxCancelled = FALSE
    /\ ServerInit
    /\ PingInit
    /\ StartupInit
    /\ DaemonInit
    /\ ClientInit
    /\ CommandInit

NextStartup ==
    \/ mainCommand
    \/ IzeTask
    \/ DaemonOrParent
    \/ waitForSocketToExist
    \/ PeerStarts
    \/ PeerExits
    \/ FileCreated
    \/ SocketExists
    \/ PingSocket
    \/ RemoveSocket
    \/ printRunningConfig
    \/ makeListener
    \/ ChmodAndPrint
    \/ ServeReturns

SpecStartup == InitStartup /\ [][NextStartup]_vars

\* the starting process is scheduled: a round of its wait loop that can be
\* made is made
SpecStartupFair == SpecStartup /\ WF_vars(waitForSocketToExist)

(***************************************************************************)
(* The daemon supervisor: daemon.Ize in one process.  ize.pc is "exec"     *)
(* (the process is being started), "Ize" (Ize entered), "dispatch" (the    *)
(* executable path is known), then "returned" or "exited" for the initial  *)
(* and the child mode, and for the watcher "start" (top of the loop),      *)
(* "wait" (in p.Wait()) and "sleep" (in time.Sleep(opt.restartDelay)).     *)
(***************************************************************************)
\* the values of ENVVAR: unset, watcher, child
Markers == {"", "1", "2"}

\* signal.Notify(sigchan, SIGINT, SIGTERM, SIGQUIT, SIGHUP): the watcher
\* treats the four alike, one stands for them
WatcherSignals == {"SIGTERM"}

exitTerminate == 0
exitUnknown == 2
signalChannelBufferSize == 5

\* os.Exit(code)
IzeExit(code) == [ize EXCEPT !.pc = "exited", !.code = code]

\* the process is executed with some marker in its environment
Exec ==
    /\ ize.pc = "exec"
    /\ \E marker \in Markers : env' = marker
    /\ ize' = [ize EXCEPT !.pc = "Ize"]
    /\ UNCHANGED <<spawned, child, sigchan, forwarders, pidFile>>
    /\ UNCHANGED outsideDaemon

\* Ize: the options are applied and os.Executable() is called
Ize ==
    /\ ize.pc = "Ize"
    /\ \E justOne, exitMain, withPidFile, noExecutable \in BOOLEAN :
          ize' = IF noExecutable
                 THEN IzeExit(exitUnknown)
                 ELSE [ize EXCEPT !.pc = "dispatch",
                                  !.opt = [justOne |-> justOne, exitMain |-> exitMain,
                                           pidFile |-> withPidFile]]
    /\ UNCHANGED <<env, spawned, child, sigchan, forwarders, pidFile>>
    /\ UNCHANGED outsideDaemon


\* Ize with the marker unset: izeInitialMode, then return
izeInitialMode ==
    /\ ize.pc = "dispatch"
    /\ env = ""
    /\ env' = InitialMarker(ize.opt.justOne)
    /\ \E started \in BOOLEAN :
          spawned' = Append(spawned, [marker |-> env', ok |-> started])
    /\ ize' = IF ize.opt.exitMain THEN IzeExit(exitTerminate)
              ELSE [ize EXCEPT !.pc = "returned"]
    /\ UNCHANGED <<child, sigchan, forwarders, pidFile>>
    /\ UNCHANGED outsideDaemon

\* (a variant: the child marker is taken for an initial invocation)
IzeChildRespawns ==
    /\ ize.pc = "dispatch"
    /\ env = "2"
    /\ \E started \in BOOLEAN :
          spawned' = Append(spawned, [marker |-> env, ok |-> started])
    /\ ize' = [ize EXCEPT !.pc = "returned"]
    /\ UNCHANGED <<env, child, sigchan, forwarders, pidFile>>
    /\ UNCHANGED outsideDaemon

\* Ize with the child marker: Setsid and return, to be the main program
IzeChild ==
    /\ ize.pc = "dispatch"
    /\ env = "2"
    /\ ize' = [ize EXCEPT !.pc = "returned"]
    /\ UNCHANGED <<env, spawned, child, sigchan, forwarders, pidFile>>
    /\ UNCHANGED outsideDaemon

\* Ize with the watcher marker: Setsid, the signal channel, the pid file,
\* and into izeWatcherMode
IzeWatcher ==
    /\ ize.pc = "dispatch"
    /\ env \notin {"", "2"}
    /\ pidFile' = ize.opt.pidFile
    /\ ize' = [ize EXCEPT !.pc = "start"]
    /\ UNCHANGED <<env, spawned, child, sigchan, forwarders>>
    /\ UNCHANGED outsideDaemon

\* one of the notified signals is sent to the watcher; with the signal the
\* channel carries, for the properties, the child that was running when it
\* arrived (0: none)
WatcherSignal ==
    /\ ize.pc \in {"start", "wait", "sleep"}
    /\ \E sig \in WatcherSignals :
          sigchan' = TrySend(sigchan, signalChannelBufferSize,
                             [sig |-> sig,
                              run |-> IF child.st = "running" THEN child.id ELSE 0])
    /\ UNCHANGED <<env, ize, spawned, child, forwarders, pidFile>>
    /\ UNCHANGED outsideDaemon

\* izeWatcherMode, top of the loop: the child marker is set, the child is
\* started and its signal goroutine with it; a failed start ends the watcher
WatcherStart ==
    /\ ize.pc = "start"
    /\ child.id < MaxChildren
    /\ env' = "2"
    /\ \E started \in BOOLEAN :
          /\ spawned' = Append(spawned, [marker |-> "2", ok |-> started])
          /\ IF started
             THEN /\ child' = [id |-> child.id + 1, st |-> "running"]
                  /\ forwarders' = forwarders \cup {child.id + 1}
                  /\ ize' = [ize EXCEPT !.pc = "wait"]
             ELSE /\ ize' = IzeExit(exitUnknown)
                  /\ UNCHANGED <<child, forwarders>>
    /\ UNCHANGED <<sigchan, pidFile>>
    /\ UNCHANGED outsideDaemon

\* the signal goroutine of child f: case n := <-sigchan, p.Signal(n), and
\* the goroutine ends
Forward ==
    /\ sigchan # <<>>
    /\ \E f \in forwarders : forwarders' = forwarders \ {f}
    /\ sigchan' = Tail(sigchan)
    /\ UNCHANGED <<env, ize, spawned, child, pidFile>>
    /\ UNCHANGED outsideDaemon

\* the running child ends: it exits with a status, or a signal kills it
ChildEnds ==
    /\ child.st = "running"
    /\ \E how \in {"exited 0", "exited 1", "signaled"} :
          child' = [child EXCEPT !.st = how]
    /\ UNCHANGED <<env, ize, spawned, sigchan, forwarders, pidFile>>
    /\ UNCHANGED outsideDaemon

\* izeWatcherMode after p.Wait(): straight to the top of the loop when the
\* child did not exit by itself; the pid file removed and os.Exit(0) when it
\* succeeded; otherwise close(stop), wg.Wait(), where the signal goroutine
\* may still take a signal, and into the sleep
WatcherWait ==
    /\ ize.pc = "wait"
    /\ child.st # "running"
    /\ CASE child.st = "signaled" ->
                /\ ize' = [ize EXCEPT !.pc = "start"]
                /\ UNCHANGED <<sigchan, forwarders, pidFile>>
         [] child.st = "exited 0" ->
                /\ ize' = IzeExit(exitTerminate)
                /\ pidFile' = (pidFile /\ ~ize.opt.pidFile)
                /\ UNCHANGED <<sigchan, forwarders>>
         [] OTHER ->
                /\ ize' = [ize EXCEPT !.pc = "sleep"]
                /\ forwarders' = forwarders \ {child.id}
                /\ \E takes \in BOOLEAN :
                      sigchan' = IF takes /\ sigchan # <<>> /\ child.id \in forwarders
                                 THEN Tail(sigchan) ELSE sigchan
                /\ UNCHANGED pidFile
    /\ UNCHANGED <<env, spawned, child>>
    /\ UNCHANGED outsideDaemon

\* time.Sleep(opt.restartDelay) returns
WatcherSleep ==
    /\ ize.pc = "sleep"
    /\ ize' = [ize EXCEPT !.pc = "start"]
    /\ UNCHANGED <<env, spawned, child, sigchan, forwarders, pidFile>>
    /\ UNCHANGED outsideDaemon

InitDaemon ==
    /\ EngineIdle
    /\ ctxCancelled = FALSE
    /\ ServerInit
    /\ PingInit
    /\ StartupInit
    /\ DaemonInit
    /\ ClientInit
    /\ CommandInit

NextDaemon ==
    \/ Exec
    \/ Ize
    \/ izeInitialMode
    \/ IzeChild
    \/ IzeWatcher
    \/ WatcherSignal
    \/ WatcherStart
    \/ Forward
    \/ ChildEnds
    \/ WatcherWait
    \/ WatcherSleep

SpecDaemon == InitDaemon /\ [][NextDaemon]_vars

(***************************************************************************)
(* A control client, muxclient.MuxClient: every command (Ping, GetConfig,  *)
(* Shutdown) calls connect and defers the CloseFunc it gets; a process     *)
(* makes several on the same client, such as the Ping of IsSocketWorking   *)
(* followed by the command itself.                                         *)
(***************************************************************************)

\* the CloseFunc connect returns: c.closeFuncOnce.Do(conn.Close), the Once
\* being the one of the client; the connection and the Once afterwards
CloseFunc(d) ==
    IF closeFuncOnce
    THEN [conn |-> [d EXCEPT !.calls = @ + 1], once |-> closeFuncOnce]
    ELSE [conn |-> [d EXCEPT !.st = "closed", !.calls = @ + 1, !.closes = @ + 1],
          once |-> TRUE]

\* c.connect: the dial fails and nothing is returned, or the connection is
\* returned with its CloseFunc
connect ==
    /\ Len(dials) < MaxDials
    /\ \E dialed \in BOOLEAN :
          dials' = IF dialed THEN Append(dials, [st |-> "open", calls |-> 0, closes |-> 0])
                   ELSE dials
    /\ UNCHANGED closeFuncOnce
    /\ UNCHANGED outsideClient

\* a CloseFunc is called: the deferred cancel() of a command, or any later call
CallCloseFunc ==
    /\ \E i \in 1..Len(dials) :
          /\ dials[i].calls < MaxCalls
          /\ dials' = [dials EXCEPT ![i] = CloseFunc(dials[i]).conn]
          /\ closeFuncOnce' = CloseFunc(dials[i]).once
    /\ UNCHANGED outsideClient

\* the peer closes its end of a connection the client has not closed
PeerCloses ==
    /\ \E i \in 1..Len(dials) :
          /\ dials[i].st = "open"
          /\ dials' = [dials EXCEPT ![i].st = "peerclosed"]
    /\ UNCHANGED closeFuncOnce
    /\ UNCHANGED outsideClient

InitClient ==
    /\ EngineIdle
    /\ ctxCancelled = FALSE
    /\ ServerInit
    /\ PingInit
    /\ StartupInit
    /\ DaemonInit
    /\ ClientInit
    /\ CommandInit

NextClient ==
    \/ connect
    \/ CallCloseFunc
    \/ PeerCloses

SpecClient == InitClient /\ [][NextClient]_vars

(***************************************************************************)
(* Command mode: handleCommand, called by mainCommand when --command is    *)
(* given, with the values viper holds for backend-agent and socket.        *)
(***************************************************************************)
\* the socket paths command mode is run with; "" is a flag left empty
CommandPaths == {"", "/a", "/s"}

\* --command
Commands == {"ping", "shutdown", "close", "stop", "config", "config-json", "status"}

ErrNoSocket == "no backend agent socket specified for command mode"
ErrUnknownCommand == "unknown command"
ErrCommandFailed == "command failed"

\* handleCommand returns err
CommandReturn(c, err) == [c EXCEPT !.pc = "done", !.end = "returned", !.err = err]

\* a run-time panic: the goroutine of main dies and the process with it
CommandPanic(c) == [c EXCEPT !.pc = "done", !.end = "panic"]

\* handleCommand up to NewMuxClient: the choice of socketPath.  With no
\* backend-agent path the --socket path is read, and an empty one returns an
\* error; then socketPaths[0] is evaluated, whatever the length of the slice
ChooseSocketPath(c) ==
    IF Len(c.paths) = 0 /\ c.socket = ""
    THEN CommandReturn(c, ErrNoSocket)
    ELSE IF Len(c.paths) = 0
         THEN CommandPanic(c)
         ELSE [c EXCEPT !.pc = "probe", !.target = c.paths[1]]

handleCommand ==
    /\ cmd.pc = "start"
    /\ \E paths \in SeqsUpTo(CommandPaths, MaxPaths), socket \in {"", "/s"},
          command \in Commands :
          cmd' = ChooseSocketPath([cmd EXCEPT !.paths = paths, !.socket = socket,
                                              !.command = command])
    /\ UNCHANGED outsideCommand

\* socket.IsSocketWorking(ctx) and the change to the --socket path when the
\* first path does not answer the ping and is not that path
IsSocketWorking ==
    /\ cmd.pc = "probe"
    /\ \E answers \in BOOLEAN :
          cmd' = IF ~(answers /\ cmd.target # "") /\ cmd.socket # cmd.target
                 THEN [cmd EXCEPT !.pc = "switch", !.target = cmd.socket,
                                  !.fellBack = TRUE]
                 ELSE [cmd EXCEPT !.pc = "switch"]
    /\ UNCHANGED outsideCommand

\* the switch on the command: Ping, Shutdown or GetConfig on the chosen
\* socket, whose error is returned, and an error for any other command
CommandSwitch ==
    /\ cmd.pc = "switch"
    /\ \E answers \in BOOLEAN :
          cmd' = IF cmd.command \in {"ping", "shutdown", "close", "stop",
                                     "config", "config-json"}
                 THEN CommandReturn(cmd, IF answers /\ cmd.target # ""
                                         THEN Nil ELSE ErrCommandFailed)
                 ELSE CommandReturn(cmd, ErrUnknownCommand)
    /\ UNCHANGED outsideCommand

InitCommand ==
    /\ EngineIdle
    /\ ctxCancelled = FALSE
    /\ ServerInit
    /\ PingInit
    /\ StartupInit
    /\ DaemonInit
    /\ ClientInit
    /\ CommandInit

NextCommand ==
    \/ handleCommand
    \/ IsSocketWorking
    \/ CommandSwitch

SpecCommand == InitCommand /\ [][NextCommand]_vars

(***************************************************************************)
(* Properties.                                                             *)
(***************************************************************************)
\* the observed request was the given operation and has returned
Returned(op) == req.op = op /\ req.pc = "done"

\* the positions of the log that hold an event of the given kind
Events(ev) == {k \in 1..Len(req.log) : req.log[k].ev = ev}

\* every backend of the chain was dialled, in order, and none connected
AllDialsFailed ==
    /\ Len(req.log) = Len(config)
    /\ \A k \in 1..Len(req.log) : req.log[k] = [ev |-> "dialfail", i |-> k]

\* the log is: dial failures at 1..i-1, a connection to i, its call
AnsweredByFirstReachable ==
    LET n == Len(req.log)
    IN /\ n >= 2
       /\ req.log[n].ev = "call"
       /\ req.log[n].i = n - 1
       /\ req.log[n - 1] = [ev |-> "connected", i |-> n - 1]
       /\ \A k \in 1..(n - 2) : req.log[k] = [ev |-> "dialfail", i |-> k]

\* C1: a Sign for a key that is not stored locally passes over every backend
\* whose dial fails and is answered by the first backend, in chain order, that
\* connects; when that backend returns a signature, Sign returns that very
\* signature and no error
C1_SignAnsweredByFirstReachable ==
    (Returned("Sign") /\ req.prev = NilVal) =>
        /\ AllDialsFailed \/ AnsweredByFirstReachable
        /\ AnsweredByFirstReachable =>
              LET answer == req.log[Len(req.log)]
              IN (answer.err = Nil /\ answer.val # NilVal) =>
                    (req.out = answer.val /\ req.err = Nil)

\* C1 happens: two dead backends, then one that signs
C1_Witness ==
    /\ Returned("Sign") /\ req.prev = NilVal
    /\ Len(req.log) = 4
    /\ req.log[1].ev = "dialfail" /\ req.log[2].ev = "dialfail"
    /\ req.log[4].ev = "call" /\ req.log[4].val # NilVal
    /\ req.out = req.log[4].val /\ req.out.by = 3 /\ req.err = Nil

\* C2: while Sign or Extension is forwarded, the first backend call that
\* returns ends the request: nothing is dialled or called after it
C2_NoBackendAfterFirstCall ==
    (req.op \in {"Sign", "Extension"}) =>
        /\ Cardinality(Events("connected")) <= 1
        /\ Cardinality(Events("call")) <= 1
        /\ \A k \in Events("call") : k = Len(req.log) /\ req.pc = "done" /\ req.conn = 0

\* C2 happens: the first backend connects and rejects the key, a later backend
\* holds it and is never dialled
C2_Witness ==
    /\ Returned("Sign") /\ req.prev = NilVal
    /\ Len(config) >= 2 /\ config[1] # "" /\ config[2] # ""
    /\ Len(req.log) = 2
    /\ req.log[2].ev = "call" /\ req.log[2].i = 1 /\ req.log[2].err # Nil
    /\ HoldsKey(config[2], req.key)
    /\ req.err = ErrKeyNotFound

\* what the successful calls of the log returned, in the order of the calls
RECURSIVE Answers(_)
Answers(log) ==
    IF log = <<>> THEN <<>>
    ELSE IF Head(log).ev = "call" /\ Head(log).err = Nil
         THEN Head(log).val \o Answers(Tail(log))
         ELSE Answers(Tail(log))

LocalPart(acc) == SelectSeq(acc, LAMBDA e : e.src = 0)

\* C3: List and Signers gather backend results in chain order up to the first
\* backend that connects and fails its call; that backend adds nothing, no
\* backend after it is contacted, and the local entries and what was gathered
\* before it are returned
C3_ListTruncatesAtFirstFailedCall ==
    (Returned("List") \/ Returned("Signers")) =>
        /\ req.acc = LocalPart(req.acc) \o Answers(req.log)
        /\ Len(LocalPart(req.acc)) = Cardinality(DOMAIN localKeys)
        /\ \A k \in Events("call") :
              req.log[k].err # Nil =>
                 /\ k = Len(req.log)
                 /\ \A j \in 1..Len(req.acc) : req.acc[j].src < req.log[k].i
        /\ \A k \in 1..Len(req.log) : \A j \in 1..Len(req.log) :
              k < j => req.log[k].i <= req.log[j].i

\* C3 happens: the first backend lists keys, the second connects and fails,
\* the third is never contacted, and the local key and the first backend's
\* keys come back
C3_Witness ==
    /\ Returned("List")
    /\ Len(config) = 3
    /\ Len(req.log) = 4
    /\ req.log[2].ev = "call" /\ req.log[2].err = Nil /\ Len(req.log[2].val) = 2
    /\ req.log[4].ev = "call" /\ req.log[4].err # Nil /\ req.log[4].i = 2
    /\ Len(req.acc) = 3 /\ req.acc[1].src = 0

\* C4: List returns no error whatever the backends do, and its result is the
\* local keys, one per stored key, followed by the keys of the backends in
\* chain order, each backend's keys as the backend gave them
C4_ListNeverFailsLocalFirst ==
    Returned("List") =>
        /\ req.err = Nil
        /\ \A j \in 1..Len(req.acc) : \A k \in 1..Len(req.acc) :
              j < k => req.acc[j].src <= req.acc[k].src
        /\ {e.Blob : e \in Range(LocalPart(req.acc))} = DOMAIN localKeys
        /\ Len(LocalPart(req.acc)) = Cardinality(DOMAIN localKeys)
        /\ \A k \in Events("call") :
              req.log[k].err = Nil =>
                 SelectSeq(req.acc, LAMBDA e : e.src = req.log[k].i) = req.log[k].val

\* C4 happens: a dead backend, a backend that lists a key also held locally,
\* and a backend whose List fails; the duplicate is kept
C4_Witness ==
    /\ Returned("List")
    /\ req.err = Nil
    /\ Len(req.log) = 5
    /\ req.log[1].ev = "dialfail"
    /\ req.log[3].ev = "call" /\ req.log[3].err = Nil
    /\ req.log[5].ev = "call" /\ req.log[5].err # Nil
    /\ \E j \in 1..Len(req.acc) : \E k \in 1..Len(req.acc) :
          req.acc[j].src = 0 /\ req.acc[k].src > 0 /\ req.acc[j].Blob = req.acc[k].Blob

\* the blob Add files a key under
BlobOf(key) == Marshal(NewPublicKey(key.PrivateKey))

\* C5: the local part of List holds exactly one record for every blob added
\* and not removed since, with the comment of the latest Add; an Add of a
\* stored blob replaces the entry; a removed key is absent
C5_OneRecordPerAddedKey ==
    /\ Returned("List") =>
          /\ {<<e.Blob, e.Comment>> : e \in Range(LocalPart(req.acc))} = added
          /\ Len(LocalPart(req.acc)) = Cardinality({p[1] : p \in added})
    /\ (Returned("Add") /\ req.err = Nil) =>
          /\ <<BlobOf(req.key), req.key.Comment>> \in added
          /\ Stored(BlobOf(req.key)) = req.key
    /\ Returned("Remove") => Marshal(req.key) \notin DOMAIN localKeys
    /\ DOMAIN localKeys = {p[1] : p \in added}

\* C5 happens: a second Add of a stored key, with another comment, beside
\* another stored key
C5_Witness ==
    /\ Returned("Add") /\ req.err = Nil
    /\ req.prev # NilVal
    /\ req.prev.Comment # req.key.Comment
    /\ Cardinality(DOMAIN localKeys) = 2
    /\ Cardinality(added) = 2

RemoveStep == req.pc = "idle" /\ req'.op = "Remove"

\* C6: Remove returns no error, leaves the key absent, touches no other
\* entry, and leaves the key map as it was when the key was absent already,
\* so that a second Remove of the same key changes nothing
C6_RemoveIdempotent ==
    [][RemoveStep =>
          /\ req'.err = Nil
          /\ Marshal(req'.key) \notin DOMAIN localKeys'
          /\ Marshal(req'.key) \notin DOMAIN localKeys => localKeys' = localKeys
          /\ \A b \in DOMAIN localKeys \ {Marshal(req'.key)} :
                b \in DOMAIN localKeys' /\ localKeys'[b] = localKeys[b]]_vars

\* C6 happens: a Remove of a key that was not stored, beside a stored key
C6_Witness ==
    /\ Returned("Remove")
    /\ req.prev = NilVal
    /\ req.err = Nil
    /\ DOMAIN localKeys # {}

RemoveAllStep == req.pc = "idle" /\ req'.op = "RemoveAll"

\* C7: RemoveAll returns no error and leaves the key map empty; it contacts
\* no backend and leaves what the backends hold, and the chain, as they were
C7_RemoveAllLeavesBackends ==
    [][RemoveAllStep =>
          /\ req'.err = Nil
          /\ DOMAIN localKeys' = {}
          /\ req'.log = <<>> /\ req'.conn = 0
          /\ backends' = backends
          /\ config' = config]_vars

\* C7 happens: RemoveAll on a store of two keys, with a backend that holds keys
C7_Witness ==
    /\ Returned("RemoveAll")
    /\ req.prev = [n |-> 2]
    /\ DOMAIN localKeys = {}
    /\ Len(config) >= 1 /\ config[1] # ""
    /\ backends[config[1]] # <<>>

\* C8: a Sign for a key that is not stored locally fails with "key not
\* found" when the chain is empty or no backend of it connects, whatever
\* else is stored
C8_SignKeyNotFound ==
    (Returned("Sign") /\ req.prev = NilVal /\ Events("connected") = {}) =>
        (req.err = ErrKeyNotFound /\ req.out = NilVal)

\* C8 happens: two keys stored, a third asked for, no backend configured
C8_Witness ==
    /\ Returned("Sign") /\ req.prev = NilVal
    /\ config = <<>>
    /\ Cardinality(DOMAIN localKeys) = 2
    /\ Marshal(req.key) \notin DOMAIN localKeys
    /\ req.err = ErrKeyNotFound

\* C9: a Sign for a stored key ends at the local signer: no backend is
\* dialled or called, a signature comes from the local key, and a local
\* failure is the result
C9_LocalSignStaysLocal ==
    (req.op = "Sign" /\ req.prev # NilVal) =>
        /\ req.pc = "done"
        /\ req.log = <<>> /\ req.conn = 0
        /\ req.err = Nil => (req.out # NilVal /\ req.out.by = 0 /\ req.out.Blob = Marshal(req.key))
        /\ req.err # Nil => req.out = NilVal

\* C9 happens: the local signer fails for a key that the first backend holds too
C9_Witness ==
    /\ Returned("Sign") /\ req.prev # NilVal
    /\ req.err # Nil
    /\ Len(config) >= 1 /\ config[1] # ""
    /\ HoldsKey(config[1], req.key)
    /\ req.log = <<>>

LocalOnlyStep == req.pc = "idle" /\ req'.op \in {"Add", "Remove", "RemoveAll"}

\* C10: Add, Remove and RemoveAll return without dialling or calling any
\* backend, and leave the backends as they were
C10_LocalOnly ==
    [][LocalOnlyStep =>
          /\ req'.pc = "done"
          /\ req'.log = <<>> /\ req'.conn = 0
          /\ backends' = backends]_vars

\* C10 happens: an Add that stores a key while three backends are configured
C10_Witness ==
    /\ Returned("Add") /\ req.err = Nil
    /\ Len(config) = 3
    /\ \A i \in 1..3 : config[i] # ""
    /\ req.log = <<>>
    /\ BlobOf(req.key) \in DOMAIN localKeys

\* the extension types the mux answers itself
ControlExtensions == {"ping", "config", "shutdown"}

\* the calls of the log in which a backend produced an answer
AnsweringCalls ==
    {k \in Events("call") : req.log[k].err = Nil /\ req.log[k].val # NilVal}

AddStep == req.pc = "idle" /\ req'.op = "Add"

\* the material of a key exposes no public key, or one ssh cannot convert
InvalidKeyMaterial(key) ==
    ~IsCryptoSigner(key.PrivateKey) \/ NewPublicKey(key.PrivateKey) = NilVal

\* C20: an Add of key material that is no crypto.Signer, or whose public key
\* ssh cannot convert, returns the error of that check and leaves the key map
\* as it was; any other Add succeeds whatever the comment, and the record it
\* stores carries the comment as given, the empty one included
C20_AddRejectsInvalidMaterial ==
    [][AddStep =>
          LET key == req'.key
          IN /\ InvalidKeyMaterial(key) =>
                   /\ req'.err = IF IsCryptoSigner(key.PrivateKey)
                                  THEN ErrConvertPublicKey ELSE ErrNotSigner
                   /\ localKeys' = localKeys
             /\ ~InvalidKeyMaterial(key) =>
                   /\ req'.err = Nil
                   /\ BlobOf(key) \in DOMAIN localKeys'
                   /\ localKeys'[BlobOf(key)].Comment = key.Comment
                   /\ localKeys'[BlobOf(key)].PrivateKey = key.PrivateKey]_vars

\* C20 happens: an Add of material that is no crypto.Signer has failed while
\* the key map holds a key stored with the empty comment
C20_Witness ==
    /\ Returned("Add")
    /\ req.err = ErrNotSigner
    /\ \E b \in DOMAIN localKeys : localKeys[b].Comment = ""

(***************************************************************************)
(* Properties of the connection server.                                    *)
(***************************************************************************)
\* in the connection table cs, connection c has a shutdown acknowledgment
\* built and not yet written
AckPending(cs, c) == cs[c].rq = "shutdown" /\ cs[c].pc \in {"defer", "write"}

\* C12: the step that cancels the root context is taken by a handler whose
\* shutdown acknowledgment is already built; and while an acknowledgment is
\* built and not yet written to a peer that is still connected, the server
\* has not closed that connection and runEventLoop has not returned, so that
\* such an acknowledgment leaves this state only by being written to the
\* peer on the open connection
C12_ShutdownAckBeforeCancelAndClose ==
    [][/\ (~ctxCancelled /\ ctxCancelled') =>
              \E c \in ConnIds :
                 /\ conns[c].st = "serving"
                 /\ conns[c].rq = "shutdown" /\ conns[c].pc = "defer"
                 /\ conns'[c].pc = "write"
       /\ \A c \in ConnIds :
             /\ AckPending(conns', c) /\ conns'[c].peer = "open" =>
                   conns'[c].st = "serving" /\ loop'.pc # "returned"
             /\ AckPending(conns, c) /\ ~AckPending(conns', c) /\ conns'[c].peer = "open" =>
                   /\ conns'[c].st = "serving" /\ loop'.pc # "returned"
                   /\ conns[c].pc = "write"
                   /\ conns'[c].pc = "read" /\ conns'[c].rq = "none"]_vars

\* C12 happens: the main loop has seen the cancellation, closed the listener
\* and waits in wg.Wait() while the acknowledgment of the shutdown that
\* cancelled the context is not yet written to its peer
C12_Witness ==
    /\ ctxCancelled
    /\ loop.pc = "wait" /\ loop.why = "ctx"
    /\ \E c \in ConnIds :
          /\ conns[c].st = "serving" /\ conns[c].peer = "open"
          /\ conns[c].rq = "shutdown" /\ conns[c].pc = "write"

\* no handleConnection goroutine is running
NoHandler == \A c \in ConnIds : conns[c].st # "serving"

\* C14 as stated: whatever stopped the loop, when runEventLoop has returned
\* no handler is running and the listener is closed
C14_ReturnedDrainedAndClosed ==
    loop.pc = "returned" => wg = 0 /\ NoHandler /\ listener = "closed"

\* C14 amended: whatever stopped the loop, when runEventLoop has returned the
\* WaitGroup is at zero and no handler is running; the listener is closed
\* when the context or a signal stopped the loop, and is left open when an
\* accept error did
C14_ReturnedDrained ==
    loop.pc = "returned" =>
        /\ wg = 0 /\ NoHandler
        /\ loop.why \in {"ctx", "sig", "err"}
        /\ loop.why \in {"ctx", "sig"} => listener = "closed"
        /\ loop.why = "err" => listener = "open" /\ loop.err = ErrAccept

\* C14 happens: an accept error stopped the loop, which returned with the
\* listener open once the handler it had started was gone
C14_Witness ==
    /\ loop.pc = "returned" /\ loop.why = "err"
    /\ listener = "open"
    /\ acceptor.pc = "exited"
    /\ \E c \in ConnIds : conns[c].st = "closed"

\* the loop is in wg.Wait()
Draining == loop.pc = "wait"

\* connection c is served and has no request in progress
Idle(c) == conns[c].st = "serving" /\ conns[c].pc = "read" /\ conns[c].rq = "none"

\* C15 as stated: while the loop waits in wg.Wait() and no served connection
\* has a request in progress, the server is not stuck: some goroutine of it
\* can take a step (towards the return of the wait) without any client
\* doing anything
C15_IdleConnectionsDoNotBlock ==
    (Draining /\ \A c \in ConnIds : conns[c].st = "serving" => Idle(c))
        => ENABLED ServerStep

\* C15 amended: wg.Wait() can return exactly when no handler is running, and
\* the handler of a connection whose peer keeps it open without a request in
\* progress cannot finish: the wait lasts until every served connection has
\* been closed by its peer
C15_DrainWaitsForPeers ==
    Draining =>
        /\ (ENABLED LoopReturn) <=> NoHandler
        /\ NoHandler <=> wg = 0
        /\ \A c \in ConnIds :
              Idle(c) /\ conns[c].peer = "open" => ~ENABLED HandlerExitOf(c)

\* C15 happens: the context is cancelled, the accept goroutine is gone, the
\* loop waits, and the only thing left is a served connection its peer keeps
\* open with no request in progress
C15_Witness ==
    /\ Draining /\ loop.why = "ctx"
    /\ acceptor.pc = "exited"
    /\ \E c \in ConnIds : Idle(c) /\ conns[c].peer = "open"
    /\ \A c \in ConnIds : conns[c].st = "serving" => Idle(c)

(***************************************************************************)
(* Properties of the ping exchange.                                        *)
(***************************************************************************)
\* the Ping the server decoded
PingMsg == UnmarshalPing(ping.bytes)

\* C13 as stated: the pong echoes the id of the ping, carries the timestamp
\* of the ping unchanged, carries the pid and the start time of the process
\* that answers, and its own timestamp is not earlier than the timestamp of
\* the ping
C13_PongNotBeforePing ==
    pong # NilVal =>
        /\ pong.Id = PingMsg.Id
        /\ pong.PingTs = PingMsg.Ts
        /\ pong.Pid = proc.Pid /\ pong.StartTime = proc.StartTime
        /\ pong.Ts >= pong.PingTs

\* C13 amended: the pong echoes the id of the ping, carries the timestamp of
\* the ping unchanged, carries the pid and the start time of the process
\* that answers, and its own timestamp is read from the clock when the ping
\* is handled: it is not earlier than the time the ping was sent at, and so
\* not earlier than the timestamp of the ping whenever that timestamp is not
\* ahead of the time the ping was sent at
C13_PongEchoesAndStamps ==
    pong # NilVal =>
        /\ pong.Id = PingMsg.Id
        /\ pong.PingTs = PingMsg.Ts
        /\ pong.Pid = proc.Pid /\ pong.StartTime = proc.StartTime
        /\ ping.sent <= pong.Ts /\ pong.Ts <= clock
        /\ pong.PingTs <= ping.sent => pong.Ts >= pong.PingTs

\* C13 happens: a ping stamped by MuxClient.Ping when it was sent has been
\* answered at a later time
C13_Witness ==
    /\ pong # NilVal
    /\ PingMsg.Ts = ping.sent
    /\ pong.Ts > pong.PingTs

(***************************************************************************)
(* Properties of the start of an instance.                                 *)
(***************************************************************************)
\* C16: a start whose ping of the socket at the path was answered removes
\* nothing and binds nothing: it goes to printRunningConfig, fetches the
\* configuration of the running instance, prints that (and nothing else)
\* when the fetch succeeds, and returns; a start whose ping was not answered
\* has removed the socket file by the time it has bound its listener
C16_LiveSocketKept ==
    /\ boot.pinged = "answered" =>
          /\ ~boot.removed /\ ~boot.bound
          /\ boot.pc \in {"fetch", "done"}
          /\ boot.printed \in {"nothing", "running"}
          /\ boot.pc = "done" =>
                \/ boot.printed = "running" /\ boot.err = Nil
                \/ boot.printed = "nothing" /\ boot.err = "retrieving running config failed"
    /\ boot.role = "server" /\ boot.printed = "running" => boot.pinged = "answered"
    /\ boot.pinged = "failed" /\ boot.bound => boot.removed

\* C16 happens: the socket of a running instance answered the ping, and the
\* start has printed that instance's configuration and returned, the socket
\* still there
C16_Witness ==
    /\ boot.role = "server"
    /\ boot.pc = "done" /\ boot.pinged = "answered"
    /\ boot.printed = "running"
    /\ sock = "other" /\ peerAlive

\* the watcher leaves p.Wait()
WaitReturns == ize.pc = "wait" /\ ize'.pc # "wait"

\* C17: in the watcher phase, a child that ended abnormally (non-zero exit,
\* killed by a signal, crashed) sends the watcher into the sleep of the
\* restart delay, and only the end of that sleep leads to the start of a new
\* child; a child that exited successfully makes the watcher remove the pid
\* file, if configured, and exit with status 0 without starting another child.
C17_RestartOnlyAfterDelay ==
    [][WaitReturns =>
          IF child.st = "exited 0"
          THEN /\ ize'.pc = "exited"
               /\ ize'.code = exitTerminate
               /\ (ize.opt.pidFile => ~pidFile')
               /\ spawned' = spawned
          ELSE ize'.pc = "sleep"]_vars

\* C18: a signal the watcher received while the child that is still running
\* was running, and has not forwarded yet, has a signal goroutine of that
\* child to forward it, the second and later signals of the same child run
\* included.
C18_PendingSignalHasForwarder ==
    \A i \in 1..Len(sigchan) :
        (child.st = "running" /\ sigchan[i].run = child.id) => child.id \in forwarders

\* the step of an initial invocation, the executable path known
InitialStep == ize.pc = "dispatch" /\ env = "" /\ ize' # ize

LastCallFailed ==
    /\ req.pc = "done"
    /\ Len(req.log) > 0
    /\ req.log[Len(req.log)].ev = "call"
    /\ req.log[Len(req.log)].err # Nil

\* C21: when the call on a reachable backend fails, Sign and Extension return
\* that backend's error to their caller, whereas List and Signers return no
\* error and the keys gathered so far.
C21_BackendErrorSurfaced ==
    LastCallFailed =>
        /\ req.op \in {"Sign", "Extension"} => req.err = req.log[Len(req.log)].err
        /\ req.op \in {"List", "Signers"} => req.err = Nil

\* C28: while a backend is dialled or called for List, Signers, Sign or
\* Extension, keysMutex is not held, so that Add, Remove and RemoveAll
\* arriving on another connection can run.
C28_NoLockDuringBackendIO ==
    req.pc \in {"loop", "call"} =>
        /\ ~rlock
        /\ ENABLED ConcurrentAdd
        /\ ENABLED ConcurrentRemove
        /\ ENABLED ConcurrentRemoveAll

\* a Lock or an Unlock on the observed connection
LockStep == req.pc = "idle" /\ req'.op \in {"Lock", "Unlock"}

\* C23: Lock and Unlock fail with the Unimplemented error for every
\* passphrase and in every state, contact no backend, and leave the key store
\* and everything the other operations depend on as they were.
C23_LockUnlockUnimplemented ==
    [][LockStep =>
          /\ ErrorsIs(req'.err, ErrUnimplemented)
          /\ req'.log = <<>>
          /\ UNCHANGED <<config, ctxCancelled, localKeys, rlock, backends, added>>]_vars

\* C23 happens: Lock has failed on a store that holds a key, which is kept
C23_Witness ==
    /\ Returned("Lock")
    /\ ErrorsIs(req.err, ErrUnimplemented)
    /\ localKeys # <<>>

\* C27: an engine constructed with no backends starts with an empty key
\* registry; each of its Lists returns, without error, exactly one record per
\* key added and not removed since, with the comment it was added with: none
\* at first, one with comment c after Add(k, c), none again after Remove(k).
C27_NoBackendListIsTheRegistry ==
    (config = <<>> /\ Returned("List")) =>
        /\ req.err = Nil
        /\ req.log = <<>>
        /\ {<<e.Blob, e.Comment>> : e \in Range(req.acc)} = added
        /\ Len(req.acc) = Cardinality(added)
        /\ Cardinality(added) = Cardinality(DOMAIN localKeys)

\* C27 happens: List on an engine with no backends after one Add with
\* comment "t" returns the one record
C27_Witness ==
    /\ config = <<>>
    /\ Returned("List")
    /\ Len(req.acc) = 1
    /\ req.acc[1].Comment = "t"
    /\ added = {<<req.acc[1].Blob, "t">>}

(***************************************************************************)
(* Properties of the config query.                                         *)
(***************************************************************************)
\* a config response without its request id and timestamp
Unstamped(cfg) == [cfg EXCEPT !.Id = "", !.Ts = -1]

\* the config queries, of the last two, that were answered
Answered == {k \in 1..Len(cfgReplies) : cfgReplies[k].err = Nil}

\* C22: config queries never modify the configuration the engine holds, and
\* every response is that configuration (socket path, backend list and
\* order, pid, start time, version) under a request id and a timestamp of its
\* own, so that two responses differ in id and timestamp at most.
C22_ConfigRepliesAreCopies ==
    /\ mconfig = RunningConfig
    /\ \A k \in Answered : Unstamped(cfgReplies[k].out) = mconfig
    /\ \A k, l \in Answered : Unstamped(cfgReplies[k].out) = Unstamped(cfgReplies[l].out)

\* C22 happens: two config queries answered, with different ids and
\* timestamps
C22_Witness ==
    /\ Answered = {1, 2}
    /\ cfgReplies[1].out.Id # cfgReplies[2].out.Id
    /\ cfgReplies[1].out.Ts < cfgReplies[2].out.Ts

(***************************************************************************)
(* Further properties of the start of an instance.                         *)
(***************************************************************************)
\* removeSocketIfExists makes its socket check
SocketCheckStep == boot.pc = "stat" /\ boot'.pc # "stat"

\* the check ended the start with the error of os.Stat
StatFailed == boot'.pc = "done" /\ boot'.err = "stat failed"

\* C24: the socket check tells three cases apart and removes nothing itself.
\* Nothing at the path is no error: the start goes on, the server to bind.
\* A socket at the path goes on to the ping that decides whether it is live.
\* A file that is no socket is an error of its own: the start ends with it,
\* having pinged, removed and bound nothing.
C24_SocketCheckOutcomes ==
    [][SocketCheckStep =>
          /\ sock' = sock
          /\ sock = "absent" =>
                /\ boot'.err = Nil
                /\ boot'.pc = (IF boot.role = "server" THEN "listen" ELSE "fetch")
          /\ sock \in {"other", "self"} => (boot'.pc = "ping" \/ StatFailed)
          /\ sock = "file" =>
                /\ boot'.pc = "done"
                /\ boot'.err \notin {Nil, "failed to remove socket"}
                /\ (~StatFailed => boot'.err = "file exists and is not a socket")
                /\ boot'.pinged = "no" /\ ~boot'.removed /\ ~boot'.bound]_vars

\* C24 happens: a server start has ended on a file that is no socket, and
\* the file is still there
C24_Witness ==
    /\ boot.role = "server"
    /\ boot.pc = "done"
    /\ boot.err = "file exists and is not a socket"
    /\ sock = "file"
    /\ ~boot.removed

\* a round of waitForSocketToExist
WaitRound == boot.pc = "wait" /\ boot' # boot /\ boot'.ize = boot.ize

\* C25: the wait for the daemon's socket ends.  A round returns the error of
\* os.Stat when it is another than not-exist, ends the wait with success
\* when the path exists, fails with the error of the context once the
\* timeout has expired, and otherwise is followed by another round after the
\* retry interval; no more rounds are made than fit into the timeout.
C25_WaitForSocketTerminates ==
    /\ [][WaitRound =>
             \/ boot'.pc = "done" /\ boot'.err = "stat failed"
             \/ boot'.pc = "stat" /\ sock # "absent" /\ boot'.err = Nil
             \/ boot'.pc = "done" /\ boot'.err = "context deadline exceeded"
                   /\ sock = "absent"
             \/ boot'.pc = "wait" /\ sock = "absent"
                   /\ boot'.rounds = boot.rounds + 1 /\ boot'.rounds <= MaxRetries]_vars
    /\ (boot.pc = "wait") ~> (boot.pc # "wait")

\* C25 happens: the wait has failed with the timeout after all its rounds
C25_Witness ==
    /\ boot.role = "parent"
    /\ boot.pc = "done"
    /\ boot.err = "context deadline exceeded"
    /\ boot.rounds = MaxRetries

(***************************************************************************)
(* Further properties of the connection server.                            *)
(***************************************************************************)
\* the server has returned to mainCommand
Exited == loop.pc = "returned"

\* C26 as stated: the exit is clean exactly when the event loop ended with
\* the cancellation of the root context or with the end of the stream, and
\* a failure for any other error of the event loop; a remote shutdown request
\* ends in a clean exit.
C26_CleanExactlyOnCancelOrEOF ==
    Exited =>
        /\ (loop.exit = Nil) <=> (loop.err \in {ErrContextCanceled, ErrEOF})
        /\ loop.exit # Nil => loop.exit = loop.err
        /\ ctxCancelled => loop.exit = Nil

\* C26, amended: the exit is clean when the event loop ended with the
\* cancellation of the root context, with the end of the stream or with a
\* termination signal, and is the error of the accept loop when that is what
\* the main loop took; a remote shutdown request ends in a clean exit unless
\* the main loop took an error of the accept loop first.
C26_ExitClassifiedByCause ==
    Exited =>
        /\ loop.why \in {"ctx", "sig"} => loop.exit = Nil
        /\ loop.why = "err" => (loop.exit = loop.err /\ loop.exit # Nil)
        /\ (loop.exit = Nil) <=> (loop.err \in {ErrContextCanceled, ErrEOF, ErrSignalReceived})
        /\ (ctxCancelled /\ loop.exit # Nil) => loop.why = "err"

\* C26 happens: a shutdown request was served and the server has exited
\* cleanly, by way of the cancelled context
C26_Witness ==
    /\ Exited
    /\ ctxCancelled
    /\ loop.why = "ctx"
    /\ loop.exit = Nil
    /\ \E c \in ConnIds : conns[c].st = "closed"

\* C29: once the root context is cancelled no handler is started: the main
\* loop takes no connection from the accept goroutine any more, however its
\* select and the accept goroutine are scheduled.
C29_NoHandlerAfterCancel ==
    [][ctxCancelled => (wg' <= wg /\ ~(acceptor.pc = "send" /\ acceptor'.pc = "Accept"))]_vars

(***************************************************************************)
(* Properties of the control client.                                       *)
(***************************************************************************)
\* C30: every connection the client opened is closed exactly once: by the
\* first call of its CloseFunc, for any number of connections opened on the
\* same client, and later calls of that CloseFunc do nothing.
C30_EachConnectionClosedOnce ==
    \A i \in 1..Len(dials) :
        /\ dials[i].closes <= 1
        /\ dials[i].calls >= 1 => (dials[i].closes = 1 /\ dials[i].st = "closed")

(***************************************************************************)
(* Backend connections.                                                    *)
(***************************************************************************)
\* C31: a backend connection is opened per endpoint per call and closed as soon
\* as the per-backend function has returned, whatever its outcome: the only
\* connection ever open is the one to the endpoint being called, every
\* connection opened earlier in the traversal has had its call and its close,
\* and none is open when List, Signers, Sign or Extension returns.
C31_BackendConnectionClosedAfterCall ==
    /\ req.conn # 0 => (req.pc = "call" /\ req.conn = req.idx)
    /\ req.pc = "call" => req.conn = req.idx
    /\ Cardinality(Events("connected")) - Cardinality(Events("call"))
          = IF req.conn # 0 THEN 1 ELSE 0
    /\ req.pc \in {"done", "idle"} => req.conn = 0

\* C31 happens: a backend connected, its call failed and the operation has
\* returned
C31_Witness ==
    /\ LastCallFailed
    /\ req.op \in {"List", "Sign"}
    /\ Cardinality(Events("connected")) >= 1
    /\ req.conn = 0

(***************************************************************************)
(* The end of the accept goroutine.                                        *)
(***************************************************************************)
\* the accept goroutine has returned
AcceptorGone == acceptor.pc = "exited"

Dispatch == ize.pc = "dispatch" /\ ize' # ize

\* C33: a process started with the child marker returns from Ize at once and
\* starts nothing; every process started by an initial invocation or by the
\* watcher carries a non-empty marker, and every process the watcher starts
\* carries the child marker, so that no started process is an initial
\* invocation or a second watcher.
C33_ReExecChainBounded ==
    /\ [][(Dispatch /\ env = "2") =>
             (ize'.pc = "returned" /\ spawned' = spawned /\ child' = child)]_vars
    /\ [][(spawned' # spawned) =>
             /\ Len(spawned') = Len(spawned) + 1
             /\ spawned'[Len(spawned')].marker # ""
             /\ spawned'[Len(spawned')].marker = env'
             /\ ize.pc = "dispatch" => env = ""
             /\ ize.pc # "dispatch" =>
                   ize.pc = "start" /\ spawned'[Len(spawned')].marker = "2"]_vars
    /\ [](\A i \in 1..Len(spawned) : spawned[i].marker \in {"1", "2"})

\* C33 happens: a process executed with the child marker has returned from Ize
\* and has started nothing
C33_Witness ==
    /\ ize.pc = "returned"
    /\ env = "2"
    /\ spawned = <<>>
    /\ child.id = 0

(***************************************************************************)
(* The daemonizing parent.                                                 *)
(***************************************************************************)
\* C34: in daemon mode a process executed with the marker unset takes the
\* path of runMainProgramDaemonMode, whenever the goroutine of daemon.Ize
\* sets the marker: it is never the server, binds no listener and removes no
\* socket.
C34_UnsetMarkerNeverServes ==
    (boot.pc \notin {"start", "AmI"} /\ ~boot.foreground /\ boot.launch = "") =>
        /\ boot.role = "parent"
        /\ ~boot.bound
        /\ ~boot.removed

\* the socket a live instance has bound is unlinked under it
LiveSocketUnlinked ==
    /\ sock = "other" /\ peerAlive
    /\ sock' = "absent" /\ peerAlive'

\* C35: the socket file that a live instance has bound is never unlinked by
\* the stale-socket removal of another process, however the steps of the
\* daemonizing parent (wait, ping, remove, print) interleave with those of
\* the instance that binds the path, a stale socket file left by an earlier
\* run included.
C35_LiveSocketNeverUnlinked ==
    [][~LiveSocketUnlinked]_vars

(***************************************************************************)
(* The cancellation of the root context by the extension path.             *)
(***************************************************************************)
\* an Extension call is made on the observed connection
ExtensionStep == req.pc = "idle" /\ req'.op = "Extension"

\* the call was a shutdown and is answered with the acknowledgment
ShutdownAcked == req'.ext = "shutdown" /\ req'.pc = "done" /\ req'.err = Nil

\* C36: an Extension call cancels the root context exactly when it is a
\* shutdown request that was decoded and is answered with the success
\* acknowledgment; a shutdown call that returns an error leaves the context
\* as it was, and so do ping, config and the forwarded extensions.
C36_CancelOnlyOnAckedShutdown ==
    [][ExtensionStep =>
          /\ ShutdownAcked => ctxCancelled'
          /\ ~ShutdownAcked => ctxCancelled' = ctxCancelled]_vars

(***************************************************************************)
(* The connections Accept has returned.                                    *)
(***************************************************************************)
\* connection c was returned by Accept and is neither served nor closed
Unserved(c) == conns[c].st = "held"

\* C37: every connection Accept has returned is in the end served by a
\* handler or closed by the accept goroutine, and when runEventLoop has
\* returned, whatever stopped it, no such connection is left unserved and
\* open.
C37_AcceptedServedOrClosed ==
    /\ [](loop.pc = "returned" => \A c \in ConnIds : ~Unserved(c))
    /\ \A c \in ConnIds : Unserved(c) ~> (conns[c].st \in {"serving", "closed"})

(***************************************************************************)
(* The signal goroutines of the watcher.                                   *)
(***************************************************************************)
\* C38: in the watcher at most one signal goroutine is alive at any time,
\* and it is the one of the child started last: the goroutine of a child
\* that has ended, by exiting or killed by a signal, is stopped before the
\* next child is started, so that it takes no signal meant for a later child.
C38_OnlyCurrentChildForwards ==
    /\ Cardinality(forwarders) <= 1
    /\ \A f \in forwarders : f = child.id

(***************************************************************************)
(* Properties of command mode.                                             *)
(***************************************************************************)
\* C39: command mode always ends in a returned value, never in a crash.  It
\* talks to the first backend-agent path, or to the --socket path when that
\* one does not answer a ping; to the --socket path when no backend-agent
\* path is configured; it returns an error when neither is given, and an
\* error for any command other than ping, shutdown, close, stop, config and
\* config-json.
C39_CommandModeReturns ==
    cmd.pc = "done" =>
        /\ cmd.end = "returned"
        /\ (cmd.paths = <<>> /\ cmd.socket = "") => cmd.err = ErrNoSocket
        /\ (cmd.paths = <<>> /\ cmd.socket # "" /\ cmd.err # ErrUnknownCommand) =>
              cmd.target = cmd.socket
        /\ (cmd.paths # <<>>) =>
              cmd.target = (IF cmd.fellBack THEN cmd.socket ELSE cmd.paths[1])
        /\ (cmd.command = "status") => cmd.err # Nil

====
